---------------------------- MODULE Spec2Model ----------------------------
(***************************************************************************)
(* State-machine model of the Ingenic JZ47xx KMS driver                    *)
(* (drivers/gpu/drm/ingenic/ingenic-drm.c): the atomic check / begin /     *)
(* flush callbacks, the plane callbacks, the timing computation, the       *)
(* interrupt handler and the bring-up values.                              *)
(*                                                                         *)
(* Registers are records of their bit fields (the field offsets live in    *)
(* ingenic-drm.h).  All u32 values that occur stay below 2^31, so the      *)
(* unsigned arithmetic of the driver coincides with integer arithmetic.    *)
(***************************************************************************)
EXTENDS Integers, Sequences, FiniteSets, TLC

VARIABLES
    soc_info,       \* priv->soc_info: the matched struct jz_soc_info
    ipu_plane,      \* priv->ipu_plane != NULL
    panel,          \* the connector's display_info (bus flags / format)
    panel_is_sharp, \* priv->panel_is_sharp
    regs,           \* the memory-mapped register block behind priv->map
    dma_hwdesc,     \* priv->dma_hwdesc[0..1]
    pix_clk,        \* rate of priv->pix_clk (Hz, in kHz units)
    lcd_clk,        \* rate of priv->lcd_clk, kHz (0 when absent)
    plane,          \* plane->state of f1, f0 and the IPU plane
    crtc,           \* crtc->state
    old_plane,      \* the plane states replaced by the running commit
    old_crtc,       \* the crtc state replaced by the running commit
    in_state,       \* planes that are part of the running transaction
    pc,             \* position of the commit in its phases
    vblank,         \* vertical-blank subsystem: on / interrupt enabled
    armed,          \* a completion event is armed against the next vblank
    sent,           \* deliveries of the running transaction's event
    last,           \* outcome of the last submit (history)
    log,            \* what the running commit has written so far (history)
    tmode,          \* the mode handed to the timing translator
    event_lock,     \* crtc->dev->event_lock: its holder, register I/O under it
    irq,            \* the interrupt handler: position, locals, what it did
    ingenic_drm_cached_gem_buf, \* module parameter cached_gem_buffers
    cache_sync      \* cache ranges the running commit has written back (history)

vars == <<soc_info, ipu_plane, panel, panel_is_sharp, regs, dma_hwdesc,
          pix_clk, lcd_clk, plane, crtc, old_plane, old_crtc, in_state, pc,
          vblank, armed, sent, last, log, tmode, event_lock, irq,
          ingenic_drm_cached_gem_buf, cache_sync>>

---------------------------------------------------------------------------
(* Bounds of the model *)

\* buffers handed in by the buffer provider are numbered 1..MaxBuffers
MaxBuffers == 2
\* porch / sync widths of the timing grid: 0, PorchStep, .., MaxPorchSteps * PorchStep
MaxPorchSteps == 2

---------------------------------------------------------------------------
(* SoC descriptions: struct jz_soc_info *)

jz4740_soc_info ==
    [name |-> "jz4740", needs_dev_clk |-> TRUE, has_osd |-> FALSE,
     max_width |-> 800, max_height |-> 600]

jz4725b_soc_info ==
    [name |-> "jz4725b", needs_dev_clk |-> FALSE, has_osd |-> TRUE,
     max_width |-> 800, max_height |-> 600]

jz4770_soc_info ==
    [name |-> "jz4770", needs_dev_clk |-> FALSE, has_osd |-> TRUE,
     max_width |-> 1280, max_height |-> 720]

ingenic_drm_of_match == {jz4740_soc_info, jz4725b_soc_info, jz4770_soc_info}

\* the boards of the model: each SoC, the jz4770 with its IPU plane bound
\* (priv->ipu_plane is the plane the IPU component registered, if any)
Boards ==
    {[soc |-> jz4740_soc_info, ipu |-> FALSE],
     [soc |-> jz4725b_soc_info, ipu |-> FALSE],
     [soc |-> jz4770_soc_info, ipu |-> TRUE]}

---------------------------------------------------------------------------
(* Display modes: struct drm_display_mode *)

NoMode ==
    [hdisplay |-> 0, hsync_start |-> 0, hsync_end |-> 0, htotal |-> 0,
     vdisplay |-> 0, vsync_start |-> 0, vsync_end |-> 0, vtotal |-> 0,
     clock |-> 0]

MkMode(hd, hfp, hsw, hbp, vd, vfp, vsw, vbp, clk) ==
    [hdisplay |-> hd, hsync_start |-> hd + hfp, hsync_end |-> hd + hfp + hsw,
     htotal |-> hd + hfp + hsw + hbp,
     vdisplay |-> vd, vsync_start |-> vd + vfp, vsync_end |-> vd + vfp + vsw,
     vtotal |-> vd + vfp + vsw + vbp,
     clock |-> clk]

\* 640x480@60: hsync 656/752/800, vsync 490/492/525, 25.175 MHz
ModeVGA == MkMode(640, 16, 96, 48, 480, 10, 2, 33, 25175)
\* 1440 wide: above the width limit of every SoC
ModeWide == MkMode(1440, 24, 136, 160, 480, 3, 6, 29, 65000)
\* 800 lines: above the height limit of every SoC
ModeTall == MkMode(640, 16, 96, 48, 800, 3, 6, 29, 40000)
\* 640x480 at a pixel clock no clock source reaches
ModeFast == MkMode(640, 16, 96, 48, 480, 10, 2, 33, 400000)

\* A mode the mode/geometry negotiation layer can hand in
\* (drm_mode_validate_basic): display > 0, display <= sync_start <=
\* sync_end <= total.
ValidMode(m) ==
    /\ m.hdisplay > 0 /\ m.vdisplay > 0
    /\ m.hdisplay <= m.hsync_start /\ m.hsync_start <= m.hsync_end
    /\ m.hsync_end <= m.htotal
    /\ m.vdisplay <= m.vsync_start /\ m.vsync_start <= m.vsync_end
    /\ m.vsync_end <= m.vtotal

PorchStep == 8
Porches == {PorchStep * i : i \in 0..MaxPorchSteps}
HDisplays == {320, 640}
VDisplays == {240, 480}

TimingModes ==
    {ModeVGA, ModeWide} \cup
    {MkMode(hd, hfp, hsw, hbp, vd, vfp, vsw, vbp, 9000) :
        hd \in HDisplays, hfp \in Porches, hsw \in Porches, hbp \in {PorchStep},
        vd \in VDisplays, vfp \in Porches, vsw \in Porches, vbp \in {PorchStep}}

---------------------------------------------------------------------------
(* The register block *)

InitRegs ==
    [CTRL    |-> [enable |-> FALSE, disable |-> FALSE, eof_irq |-> FALSE,
                  ofup |-> FALSE, burst_16 |-> FALSE, bpp |-> "0"],
     LCDSTATE |-> [eof |-> FALSE, disabled |-> FALSE],
     CFG     |-> {},
     OSDC    |-> [osden |-> FALSE, f0en |-> FALSE, f1en |-> FALSE],
     OSDCTRL |-> [ipu |-> FALSE, bpp |-> "0"],
     VSYNC   |-> [vps |-> 0, vpe |-> 0],
     HSYNC   |-> [hps |-> 0, hpe |-> 0],
     VAT     |-> [ht |-> 0, vt |-> 0],
     DAH     |-> [hds |-> 0, hde |-> 0],
     DAV     |-> [vds |-> 0, vde |-> 0],
     IPUR    |-> [ipuren |-> FALSE, ipur |-> 0],
     PS      |-> 0, CLS |-> 0, SPL |-> 0, REV |-> 0,
     XYP0    |-> [x |-> 0, y |-> 0], XYP1 |-> [x |-> 0, y |-> 0],
     SIZE0   |-> [w |-> 0, h |-> 0], SIZE1 |-> [w |-> 0, h |-> 0],
     DA0     |-> 0, DA1 |-> 0]

\* the register map of ingenic-drm.h: byte offset of each register
\* (LCDSTATE is JZ_REG_LCD_STATE)
RegOffset ==
    [CFG |-> 0, VSYNC |-> 4, HSYNC |-> 8, VAT |-> 12, DAH |-> 16, DAV |-> 20,
     PS |-> 24, CLS |-> 28, SPL |-> 32, REV |-> 36, CTRL |-> 48,
     LCDSTATE |-> 52, IID |-> 56, DA0 |-> 64, SA0 |-> 68, FID0 |-> 72,
     CMD0 |-> 76, DA1 |-> 80, SA1 |-> 84, FID1 |-> 88, CMD1 |-> 92,
     RGBC |-> 144, OSDC |-> 256, OSDCTRL |-> 260, OSDS |-> 264, BGC |-> 268,
     KEY0 |-> 272, KEY1 |-> 276, ALPHA |-> 280, IPUR |-> 284, XYP0 |-> 288,
     XYP1 |-> 292, SIZE0 |-> 296, SIZE1 |-> 300]

LcdRegs == DOMAIN RegOffset

\* faulty variant: the scanout-start register of descriptor 0 is taken for read-only
ingenic_drm_writeable_reg_da0(reg) ==
    reg \notin {"IID", "DA0", "FID0", "CMD0", "SA1", "FID1", "CMD1"}

\* ingenic_drm_writeable_reg(dev, reg)
ingenic_drm_writeable_reg(reg) ==
    reg \notin {"IID", "SA0", "FID0", "CMD0", "SA1", "FID1", "CMD1"}

ingenic_drm_regmap_config ==
    [reg_bits |-> 32, val_bits |-> 32, reg_stride |-> 4,
     max_register |-> "SIZE1"]

\* regmap_writeable(map, reg): within max_register and allowed by the
\* writeable_reg callback
regmap_writeable(reg) ==
    /\ RegOffset[reg] <= RegOffset[ingenic_drm_regmap_config.max_register]
    /\ ingenic_drm_writeable_reg(reg)

\* the registers ingenic_drm_crtc_update_timings() programs
TimingRegs == {"VSYNC", "HSYNC", "VAT", "DAH", "DAV", "IPUR",
               "PS", "CLS", "SPL", "REV"}

---------------------------------------------------------------------------
(* Timing translator: ingenic_drm_crtc_update_timings() *)

\* faulty variant: the data end computed without adding the active size
TimingValues_no_display(mode) ==
    LET vpe == mode.vsync_end - mode.vsync_start
        vds == mode.vtotal - mode.vsync_start
        vde == vds
        vt  == vde + mode.vsync_start - mode.vdisplay
        hpe == mode.hsync_end - mode.hsync_start
        hds == mode.htotal - mode.hsync_start
        hde == hds
        ht  == hde + mode.hsync_start - mode.hdisplay
    IN [vpe |-> vpe, vds |-> vds, vde |-> vde, vt |-> vt,
        hpe |-> hpe, hds |-> hds, hde |-> hde, ht |-> ht]

\* faulty variant: the vertical total computed without subtracting the active height
TimingValues_no_sub(mode) ==
    LET vpe == mode.vsync_end - mode.vsync_start
        vds == mode.vtotal - mode.vsync_start
        vde == vds + mode.vdisplay
        vt  == vde + mode.vsync_start
        hpe == mode.hsync_end - mode.hsync_start
        hds == mode.htotal - mode.hsync_start
        hde == hds + mode.hdisplay
        ht  == hde + mode.hsync_start - mode.hdisplay
    IN [vpe |-> vpe, vds |-> vds, vde |-> vde, vt |-> vt,
        hpe |-> hpe, hds |-> hds, hde |-> hde, ht |-> ht]

\* the eight derived values, in the order the code computes them
TimingValues(mode) ==
    LET vpe == mode.vsync_end - mode.vsync_start
        vds == mode.vtotal - mode.vsync_start
        vde == vds + mode.vdisplay
        vt  == vde + mode.vsync_start - mode.vdisplay
        hpe == mode.hsync_end - mode.hsync_start
        hds == mode.htotal - mode.hsync_start
        hde == hds + mode.hdisplay
        ht  == hde + mode.hsync_start - mode.hdisplay
    IN [vpe |-> vpe, vds |-> vds, vde |-> vde, vt |-> vt,
        hpe |-> hpe, hds |-> hds, hde |-> hde, ht |-> ht]

\* x << 16 | y for y < 2^16
Pack16(hi, lo) == hi * 65536 + lo

(* Register access through priv->map.  h bundles what the handlers change:   *)
(* the register block, the descriptors, the pixel clock rate and the log of  *)
(* accesses made by the running commit.                                      *)

\* regmap_write(priv->map, reg, val): a write to a register that is not
\* writeable is refused (-EIO) and does not reach the hardware; the log
\* keeps every write that was issued
regmap_write(h, reg, val) ==
    IF regmap_writeable(reg)
    THEN [h EXCEPT !.regs = [@ EXCEPT ![reg] = val], !.log = Append(@, reg)]
    ELSE [h EXCEPT !.log = Append(@, reg)]

\* regmap_update_bits(priv->map, reg, mask, val): the fields in bits change
regmap_update_bits(h, reg, bits) ==
    IF regmap_writeable(reg)
    THEN [h EXCEPT
            !.regs = [@ EXCEPT ![reg] =
                         [f \in DOMAIN @ |->
                             IF f \in DOMAIN bits THEN bits[f] ELSE @[f]]],
            !.log = Append(@, reg)]
    ELSE [h EXCEPT !.log = Append(@, reg)]

ingenic_drm_crtc_update_timings(h, mode) ==
    LET t  == TimingValues(mode)
        h1 == regmap_write(h, "VSYNC", [vps |-> 0, vpe |-> t.vpe])
        h2 == regmap_write(h1, "HSYNC", [hps |-> 0, hpe |-> t.hpe])
        h3 == regmap_write(h2, "VAT", [ht |-> t.ht, vt |-> t.vt])
        h4 == regmap_write(h3, "DAH", [hds |-> t.hds, hde |-> t.hde])
        h5 == regmap_write(h4, "DAV", [vds |-> t.vds, vde |-> t.vde])
        h6 == IF panel_is_sharp
              THEN regmap_write(
                     regmap_write(
                       regmap_write(
                         regmap_write(h5, "PS", Pack16(t.hde, t.hde + 1)),
                         "CLS", Pack16(t.hde, t.hde + 1)),
                       "SPL", Pack16(t.hpe, t.hpe + 1)),
                     "REV", Pack16(mode.htotal, 0))
              ELSE h5
        h7 == regmap_update_bits(h6, "CTRL", [ofup |-> TRUE, burst_16 |-> TRUE])
    IN regmap_write(h7, "IPUR",
                    [ipuren |-> TRUE, ipur |-> (t.ht * t.vpe) \div 3])

---------------------------------------------------------------------------
(* Framebuffers and plane states: struct drm_framebuffer, drm_plane_state *)

Formats == {"XRGB1555", "RGB565", "XRGB8888"}

\* fb->format->cpp[0] of ingenic_drm_primary_formats
Cpp(format) == IF format = "XRGB8888" THEN 4 ELSE 2

NoFb == [format |-> "none", paddr |-> 0, width |-> 0]

\* buffer n of the buffer provider: its physical address and line width
Fb(format, n, width) == [format |-> format, paddr |-> n * 4194304, width |-> width]

\* 16.16 fixed point of the source rectangle
Fix(n) == n * 65536
FixInt(f) == f \div 65536

PlaneOff ==
    [fb |-> NoFb, crtc_x |-> 0, crtc_y |-> 0, crtc_w |-> 0, crtc_h |-> 0,
     src_x |-> 0, src_y |-> 0, src_w |-> 0, src_h |-> 0]

PlaneOn(fb, x, y, w, h, sx, sy, sw, sh) ==
    [fb |-> fb, crtc_x |-> x, crtc_y |-> y, crtc_w |-> w, crtc_h |-> h,
     src_x |-> Fix(sx), src_y |-> Fix(sy), src_w |-> Fix(sw), src_h |-> Fix(sh)]

\* state->crtc != NULL: the core (drm_atomic_plane_check) accepts a plane
\* state only with both a framebuffer and a CRTC or with neither
HasCrtc(st) == st.fb # NoFb

PlaneIds == {"ipu", "f1", "f0"}
\* plane index order: the IPU plane is plane 0 (drm_plane_from_index(drm, 0)),
\* then f1 (primary) and f0 (overlay) as ingenic_drm_bind() registers them
PlaneOrder == <<"ipu", "f1", "f0">>
PlaneType(p) == IF p = "f0" THEN "OVERLAY" ELSE "PRIMARY"

Present(p) == IF p = "ipu" THEN ipu_plane
              ELSE IF p = "f0" THEN soc_info.has_osd
              ELSE TRUE

---------------------------------------------------------------------------
(* CRTC state: struct drm_crtc_state *)

NoCrtcState ==
    [mode |-> NoMode, active |-> FALSE, event |-> FALSE, no_vblank |-> FALSE,
     mode_changed |-> FALSE, active_changed |-> FALSE]

Enable(cs) == cs.mode # NoMode

drm_atomic_crtc_needs_modeset(cs) == cs.mode_changed \/ cs.active_changed

---------------------------------------------------------------------------
(* Pixel clock source: clk_round_rate() / clk_set_rate() on priv->pix_clk *)

\* the clock source produces multiples of PixClkStep kHz up to PixClkMax kHz
PixClkMax == 200000
PixClkStep == 1000

\* the rate (kHz) the clock source can produce for a request, or -EINVAL
clk_round_rate(khz) ==
    IF khz > PixClkMax THEN -22 ELSE khz - (khz % PixClkStep)

---------------------------------------------------------------------------
(* Checking: drm_atomic_helper_check() with the driver's callbacks *)

\* drm_atomic_helper_check_plane_state(state, crtc_state, NO_SCALING,
\* NO_SCALING, can_position, can_update_disabled = true)
drm_atomic_helper_check_plane_state(st, cs, can_position) ==
    LET clip_w == IF Enable(cs) THEN cs.mode.hdisplay ELSE 0
        clip_h == IF Enable(cs) THEN cs.mode.vdisplay ELSE 0
        visible == /\ st.crtc_x < clip_w /\ st.crtc_y < clip_h
                   /\ st.crtc_w > 0 /\ st.crtc_h > 0
        covers == /\ st.crtc_x = 0 /\ st.crtc_y = 0
                  /\ st.crtc_w = clip_w /\ st.crtc_h = clip_h
    IN IF st.fb = NoFb THEN "ok"
       ELSE IF (st.crtc_w # 0 /\ st.src_w # Fix(st.crtc_w))
               \/ (st.crtc_h # 0 /\ st.src_h # Fix(st.crtc_h)) THEN "ERANGE"
       ELSE IF ~visible THEN "ok"
       ELSE IF ~can_position /\ ~covers THEN "EINVAL"
       ELSE "ok"

GeometryChanged(old, st) ==
    \/ old.crtc_x # st.crtc_x
    \/ old.crtc_y # st.crtc_y
    \/ old.crtc_w # st.crtc_w
    \/ old.crtc_h # st.crtc_h
    \/ old.fb.format # st.fb.format

\* faulty variant: the modeset rule compares the framebuffers instead of their formats
ingenic_drm_plane_atomic_check_fb(old, st, cs) ==
    IF ~(HasCrtc(st) \/ HasCrtc(old))
    THEN [ret |-> "ok", mode_changed |-> cs.mode_changed]
    ELSE LET ret == drm_atomic_helper_check_plane_state(st, cs, soc_info.has_osd)
         IN IF ret # "ok"
            THEN [ret |-> ret, mode_changed |-> cs.mode_changed]
            ELSE IF ~soc_info.has_osd
                    /\ (\/ st.src_x # 0
                        \/ FixInt(st.src_w) # st.crtc_w
                        \/ FixInt(st.src_h) # st.crtc_h)
            THEN [ret |-> "EINVAL", mode_changed |-> cs.mode_changed]
            ELSE [ret |-> "ok",
                  mode_changed |->
                     \/ cs.mode_changed
                     \/ (soc_info.has_osd
                         /\ (\/ GeometryChanged(old, st)
                             \/ old.fb # st.fb))]

\* faulty variant: the single-plane rule without the source offset test
ingenic_drm_plane_atomic_check_no_src_x(old, st, cs) ==
    IF ~(HasCrtc(st) \/ HasCrtc(old))
    THEN [ret |-> "ok", mode_changed |-> cs.mode_changed]
    ELSE LET ret == drm_atomic_helper_check_plane_state(st, cs, soc_info.has_osd)
         IN IF ret # "ok"
            THEN [ret |-> ret, mode_changed |-> cs.mode_changed]
            ELSE IF ~soc_info.has_osd
                    /\ (\/ FixInt(st.src_w) # st.crtc_w
                        \/ FixInt(st.src_h) # st.crtc_h)
            THEN [ret |-> "EINVAL", mode_changed |-> cs.mode_changed]
            ELSE [ret |-> "ok",
                  mode_changed |->
                     \/ cs.mode_changed
                     \/ (soc_info.has_osd
                         /\ (\/ old.fb = NoFb
                             \/ st.fb = NoFb
                             \/ GeometryChanged(old, st)))]

\* ingenic_drm_plane_atomic_check(plane, state): old is plane->state, cs the
\* crtc state of the transaction.  Result: the return value and the
\* transaction's mode_changed flag.
ingenic_drm_plane_atomic_check(old, st, cs) ==
    IF ~(HasCrtc(st) \/ HasCrtc(old))
    THEN [ret |-> "ok", mode_changed |-> cs.mode_changed]
    ELSE LET ret == drm_atomic_helper_check_plane_state(st, cs, soc_info.has_osd)
         IN IF ret # "ok"
            THEN [ret |-> ret, mode_changed |-> cs.mode_changed]
            ELSE IF ~soc_info.has_osd
                    /\ (\/ st.src_x # 0
                        \/ FixInt(st.src_w) # st.crtc_w
                        \/ FixInt(st.src_h) # st.crtc_h)
            THEN [ret |-> "EINVAL", mode_changed |-> cs.mode_changed]
            ELSE [ret |-> "ok",
                  mode_changed |->
                     \/ cs.mode_changed
                     \/ (soc_info.has_osd
                         /\ (\/ old.fb = NoFb
                             \/ st.fb = NoFb
                             \/ GeometryChanged(old, st)))]

\* atomic_check of the IPU plane (ingenic-ipu.c): a full modeset when the
\* plane's buffer presence, geometry or format changes
ipu_plane_atomic_check(old, st, cs) ==
    [ret |-> "ok",
     mode_changed |->
        \/ cs.mode_changed
        \/ ((HasCrtc(st) \/ HasCrtc(old))
            /\ (old.fb = NoFb \/ st.fb = NoFb \/ GeometryChanged(old, st)))]

PlaneAtomicCheck(p, old, st, cs) ==
    IF p = "ipu" THEN ipu_plane_atomic_check(old, st, cs)
    ELSE ingenic_drm_plane_atomic_check(old, st, cs)

\* drm_atomic_helper_check_planes(): the plane callbacks in plane order
RECURSIVE CheckPlanes(_, _, _, _, _)
CheckPlanes(i, planes, olds, news, cs) ==
    IF i > Len(PlaneOrder) THEN [ret |-> "ok", mode_changed |-> cs.mode_changed]
    ELSE LET p == PlaneOrder[i]
         IN IF p \notin planes THEN CheckPlanes(i + 1, planes, olds, news, cs)
            ELSE LET r == PlaneAtomicCheck(p, olds[p], news[p], cs)
                 IN IF r.ret # "ok" THEN r
                    ELSE CheckPlanes(i + 1, planes, olds, news,
                                     [cs EXCEPT !.mode_changed = r.mode_changed])

\* faulty variant: no exclusion of the f1 and IPU planes
ingenic_drm_crtc_atomic_check_no_excl(cs, news) ==
    LET none == [ret |-> "ok", why |-> "", no_vblank |-> cs.no_vblank,
                 pulled |-> {}]
    IN IF ~drm_atomic_crtc_needs_modeset(cs) THEN none
       ELSE IF cs.mode.hdisplay > soc_info.max_width
               \/ cs.mode.vdisplay > soc_info.max_height
       THEN [none EXCEPT !.ret = "EINVAL", !.why = "size"]
       ELSE IF clk_round_rate(cs.mode.clock) < 0
       THEN [none EXCEPT !.ret = "EINVAL", !.why = "clock"]
       ELSE IF ~soc_info.has_osd THEN none
       ELSE [none EXCEPT
               !.pulled = {"f1", "f0"} \cup (IF ipu_plane THEN {"ipu"} ELSE {}),
               !.no_vblank =
                   \/ cs.no_vblank
                   \/ (/\ news["f1"].fb = NoFb /\ news["f0"].fb = NoFb
                       /\ ~(ipu_plane /\ news["ipu"].fb # NoFb))]

\* faulty variant: no test of the active size against the SoC's maximum
ingenic_drm_crtc_atomic_check_no_size(cs, news) ==
    LET none == [ret |-> "ok", why |-> "", no_vblank |-> cs.no_vblank,
                 pulled |-> {}]
    IN IF ~drm_atomic_crtc_needs_modeset(cs) THEN none
       ELSE IF clk_round_rate(cs.mode.clock) < 0
       THEN [none EXCEPT !.ret = "EINVAL", !.why = "clock"]
       ELSE IF ~soc_info.has_osd THEN none
       ELSE IF ipu_plane /\ news["f1"].fb # NoFb /\ news["ipu"].fb # NoFb
       THEN [none EXCEPT !.ret = "EINVAL", !.why = "f1_ipu"]
       ELSE [none EXCEPT
               !.pulled = {"f1", "f0"} \cup (IF ipu_plane THEN {"ipu"} ELSE {}),
               !.no_vblank =
                   \/ cs.no_vblank
                   \/ (/\ news["f1"].fb = NoFb /\ news["f0"].fb = NoFb
                       /\ ~(ipu_plane /\ news["ipu"].fb # NoFb))]

\* ingenic_drm_crtc_atomic_check(crtc, state).  Result: the return value,
\* the reason of a rejection, state->no_vblank and whether the f1 / f0 / IPU
\* plane states were pulled into the transaction.
ingenic_drm_crtc_atomic_check(cs, news) ==
    LET none == [ret |-> "ok", why |-> "", no_vblank |-> cs.no_vblank,
                 pulled |-> {}]
    IN IF ~drm_atomic_crtc_needs_modeset(cs) THEN none
       ELSE IF cs.mode.hdisplay > soc_info.max_width
               \/ cs.mode.vdisplay > soc_info.max_height
       THEN [none EXCEPT !.ret = "EINVAL", !.why = "size"]
       ELSE IF clk_round_rate(cs.mode.clock) < 0
       THEN [none EXCEPT !.ret = "EINVAL", !.why = "clock"]
       ELSE IF ~soc_info.has_osd THEN none
       ELSE IF ipu_plane /\ news["f1"].fb # NoFb /\ news["ipu"].fb # NoFb
       THEN [none EXCEPT !.ret = "EINVAL", !.why = "f1_ipu"]
       ELSE [none EXCEPT
               !.pulled = {"f1", "f0"} \cup (IF ipu_plane THEN {"ipu"} ELSE {}),
               !.no_vblank =
                   \/ cs.no_vblank
                   \/ (/\ news["f1"].fb = NoFb /\ news["f0"].fb = NoFb
                       /\ ~(ipu_plane /\ news["ipu"].fb # NoFb))]

---------------------------------------------------------------------------
(* DMA descriptors: struct ingenic_dma_hwdesc *)

\* priv->dma_hwdesc_phys[i] as dma_alloc_coherent() returned it
dma_hwdesc_phys(i) == 65536 + 16 * i

InitDesc ==
    [i \in {0, 1} |->
        [next |-> dma_hwdesc_phys(i),
         addr |-> 0,
         id   |-> IF i = 0 THEN "0xdeafbead" ELSE "0xdeadbabe",
         cmd  |-> [len |-> 0, eof_irq |-> FALSE]]]

\* drm_fb_cma_get_gem_addr(fb, state, 0): the buffer's address plus the
\* offset of the source rectangle's origin
drm_fb_cma_get_gem_addr(st) ==
    st.fb.paddr + Cpp(st.fb.format) * FixInt(st.src_x)
                + st.fb.width * Cpp(st.fb.format) * FixInt(st.src_y)

---------------------------------------------------------------------------
(* Plane programming *)

EnBit(p) == IF PlaneType(p) = "PRIMARY" THEN "f1en" ELSE "f0en"

ingenic_drm_plane_enable(h, p) ==
    IF soc_info.has_osd
    THEN regmap_update_bits(h, "OSDC", [b \in {EnBit(p)} |-> TRUE])
    ELSE h

\* faulty variant: the plane's descriptor is invalidated along with its enable bit
ingenic_drm_plane_disable_desc(h, p) ==
    LET idx == IF ~soc_info.has_osd THEN 0
               ELSE IF p = "f0" THEN 0 ELSE 1
        h1  == [h EXCEPT !.desc[idx].cmd = [len |-> 0, eof_irq |-> FALSE]]
    IN IF soc_info.has_osd
       THEN regmap_update_bits(h1, "OSDC", [b \in {IF p = "f0" THEN "f0en" ELSE "f1en"} |-> FALSE])
       ELSE h1

\* faulty variant: the enable bits of both planes are cleared
ingenic_drm_plane_disable_both(h, p) ==
    IF soc_info.has_osd
    THEN regmap_update_bits(h, "OSDC", [f1en |-> FALSE, f0en |-> FALSE])
    ELSE h

\* ingenic_drm_plane_disable(dev, plane)
ingenic_drm_plane_disable(h, p) ==
    IF soc_info.has_osd
    THEN regmap_update_bits(h, "OSDC", [b \in {EnBit(p)} |-> FALSE])
    ELSE h

\* the BPP field values of the switch (fourcc)
BppBits(fourcc) ==
    CASE fourcc = "XRGB1555" -> "RGB555|BPP_15_16"
      [] fourcc = "RGB565"   -> "BPP_15_16"
      [] fourcc = "XRGB8888" -> "BPP_18_24"
      [] OTHER               -> "0"

ingenic_drm_plane_config(h, p, st, fourcc) ==
    LET h1 == ingenic_drm_plane_enable(h, p)
        h2 == IF soc_info.has_osd /\ PlaneType(p) = "PRIMARY"
              THEN regmap_update_bits(h1, "OSDCTRL", [bpp |-> BppBits(fourcc)])
              ELSE regmap_update_bits(h1, "CTRL", [bpp |-> BppBits(fourcc)])
        xy_reg   == IF PlaneType(p) = "PRIMARY" THEN "XYP1" ELSE "XYP0"
        size_reg == IF PlaneType(p) = "PRIMARY" THEN "SIZE1" ELSE "SIZE0"
    IN IF soc_info.has_osd
       THEN regmap_write(
              regmap_write(h2, xy_reg, [x |-> st.crtc_x, y |-> st.crtc_y]),
              size_reg, [w |-> st.crtc_w, h |-> st.crtc_h])
       ELSE h2

HwdescIdx(p) ==
    IF ~soc_info.has_osd THEN 0
    ELSE IF PlaneType(p) = "PRIMARY" THEN 1 ELSE 0

\* the log entries of a write to dma_hwdesc[idx]->addr and ->cmd
DescLog(idx) ==
    IF idx = 0 THEN <<"desc0.addr", "desc0.cmd">>
    ELSE <<"desc1.addr", "desc1.cmd">>

\* dma_cache_sync(dev, phys_to_virt(addr), size, DMA_TO_DEVICE): the cache
\* lines of [addr, addr + size) are written back to memory
dma_cache_sync(h, addr, size) ==
    [h EXCEPT !.sync = Append(@, [addr |-> addr, size |-> size]),
              !.log = Append(@, "dma_cache_sync")]

\* faulty variant: the descriptor is chained to the buffer instead of to itself
ingenic_drm_plane_atomic_update_next(h, p, st, cs) ==
    IF st.fb # NoFb
    THEN LET addr   == drm_fb_cma_get_gem_addr(st)
             width  == FixInt(st.src_w)
             height == FixInt(st.src_h)
             cpp    == Cpp(st.fb.format)
             idx    == HwdescIdx(p)
             h0 == IF ingenic_drm_cached_gem_buf
                   THEN dma_cache_sync(h, addr, width * height * cpp)
                   ELSE h
             h1 == [h0 EXCEPT
                      !.desc[idx].next = addr,
                      !.desc[idx].cmd =
                          [len |-> (width * height * cpp) \div 4,
                           eof_irq |-> TRUE],
                      !.log = @ \o DescLog(idx)]
         IN IF drm_atomic_crtc_needs_modeset(cs)
            THEN ingenic_drm_plane_config(h1, p, st, st.fb.format)
            ELSE h1
    ELSE h

\* faulty variant: every plane uses descriptor 0
ingenic_drm_plane_atomic_update_slot0(h, p, st, cs) ==
    IF st.fb # NoFb
    THEN LET addr   == drm_fb_cma_get_gem_addr(st)
             width  == FixInt(st.src_w)
             height == FixInt(st.src_h)
             cpp    == Cpp(st.fb.format)
             idx    == 0
             h0 == IF ingenic_drm_cached_gem_buf
                   THEN dma_cache_sync(h, addr, width * height * cpp)
                   ELSE h
             h1 == [h0 EXCEPT
                      !.desc[idx].addr = addr,
                      !.desc[idx].cmd =
                          [len |-> (width * height * cpp) \div 4,
                           eof_irq |-> TRUE],
                      !.log = @ \o DescLog(idx)]
         IN IF drm_atomic_crtc_needs_modeset(cs)
            THEN ingenic_drm_plane_config(h1, p, st, st.fb.format)
            ELSE h1
    ELSE h

\* faulty variant: the plane is configured on every update, modeset or not
ingenic_drm_plane_atomic_update_config(h, p, st, cs) ==
    IF st.fb # NoFb
    THEN LET addr   == drm_fb_cma_get_gem_addr(st)
             width  == FixInt(st.src_w)
             height == FixInt(st.src_h)
             cpp    == Cpp(st.fb.format)
             idx    == HwdescIdx(p)
             h0 == IF ingenic_drm_cached_gem_buf
                   THEN dma_cache_sync(h, addr, width * height * cpp)
                   ELSE h
             h1 == [h0 EXCEPT
                      !.desc[idx].addr = addr,
                      !.desc[idx].cmd =
                          [len |-> (width * height * cpp) \div 4,
                           eof_irq |-> TRUE],
                      !.log = @ \o DescLog(idx)]
         IN ingenic_drm_plane_config(h1, p, st, st.fb.format)
    ELSE h

\* faulty variant: the cache is written back after the descriptor has been programmed
ingenic_drm_plane_atomic_update_sync_late(h, p, st, cs) ==
    IF st.fb # NoFb
    THEN LET addr   == drm_fb_cma_get_gem_addr(st)
             width  == FixInt(st.src_w)
             height == FixInt(st.src_h)
             cpp    == Cpp(st.fb.format)
             idx    == HwdescIdx(p)
             h0 == [h EXCEPT
                      !.desc[idx].addr = addr,
                      !.desc[idx].cmd =
                          [len |-> (width * height * cpp) \div 4,
                           eof_irq |-> TRUE],
                      !.log = @ \o DescLog(idx)]
             h1 == IF ingenic_drm_cached_gem_buf
                   THEN dma_cache_sync(h0, addr, width * height * cpp)
                   ELSE h0
         IN IF drm_atomic_crtc_needs_modeset(cs)
            THEN ingenic_drm_plane_config(h1, p, st, st.fb.format)
            ELSE h1
    ELSE h

\* ingenic_drm_plane_atomic_update(plane, oldstate): st is plane->state, cs
\* is state->crtc->state
ingenic_drm_plane_atomic_update(h, p, st, cs) ==
    IF st.fb # NoFb
    THEN LET addr   == drm_fb_cma_get_gem_addr(st)
             width  == FixInt(st.src_w)
             height == FixInt(st.src_h)
             cpp    == Cpp(st.fb.format)
             idx    == HwdescIdx(p)
             h0 == IF ingenic_drm_cached_gem_buf
                   THEN dma_cache_sync(h, addr, width * height * cpp)
                   ELSE h
             h1 == [h0 EXCEPT
                      !.desc[idx].addr = addr,
                      !.desc[idx].cmd =
                          [len |-> (width * height * cpp) \div 4,
                           eof_irq |-> TRUE],
                      !.log = @ \o DescLog(idx)]
         IN IF drm_atomic_crtc_needs_modeset(cs)
            THEN ingenic_drm_plane_config(h1, p, st, st.fb.format)
            ELSE h1
    ELSE h

---------------------------------------------------------------------------
(* CRTC programming *)

\* drm_crtc_vblank_on(crtc) / the entry of drm_crtc_vblank_off(crtc), as the
\* commit's log records them; the vblank subsystem's own state is changed by
\* the action that makes the call
drm_crtc_vblank_on(h) == [h EXCEPT !.log = Append(@, "drm_crtc_vblank_on")]
drm_crtc_vblank_off(h) == [h EXCEPT !.log = Append(@, "drm_crtc_vblank_off")]

\* faulty variant: the enable bit is set without clearing the disable request
ingenic_drm_crtc_atomic_enable_keep_disable(h) ==
    drm_crtc_vblank_on(
        regmap_update_bits(
            regmap_write(h, "LCDSTATE", [eof |-> FALSE, disabled |-> FALSE]),
            "CTRL", [enable |-> TRUE]))

\* ingenic_drm_crtc_atomic_enable(crtc, state)
ingenic_drm_crtc_atomic_enable(h) ==
    drm_crtc_vblank_on(
        regmap_update_bits(
            regmap_write(h, "LCDSTATE", [eof |-> FALSE, disabled |-> FALSE]),
            "CTRL", [enable |-> TRUE, disable |-> FALSE]))

\* faulty variant: the routing bit is written in every commit, modeset or not
ingenic_drm_crtc_atomic_begin_always(h, cs, ipu_st) ==
    IF soc_info.has_osd
    THEN regmap_update_bits(h, "OSDCTRL",
                            [ipu |-> ipu_plane /\ ipu_st.fb # NoFb])
    ELSE h

\* ingenic_drm_crtc_atomic_begin(crtc, oldstate): cs is crtc->state, ipu_st
\* is priv->ipu_plane->state
ingenic_drm_crtc_atomic_begin(h, cs, ipu_st) ==
    IF soc_info.has_osd /\ drm_atomic_crtc_needs_modeset(cs)
    THEN regmap_update_bits(h, "OSDCTRL",
                            [ipu |-> ipu_plane /\ ipu_st.fb # NoFb])
    ELSE h

\* clk_set_rate(priv->pix_clk, khz * 1000): the clock takes the rate the
\* source can produce, or keeps its rate when there is none
clk_set_rate(h, khz) ==
    [h EXCEPT !.pix = IF clk_round_rate(khz) < 0 THEN @
                      ELSE clk_round_rate(khz),
              !.log = Append(@, "pix_clk")]

\* faulty variant: the device clock is recomputed from the pixel clock on every modeset
FlushModeset_dev_clk(h, cs) ==
    IF drm_atomic_crtc_needs_modeset(cs)
    THEN LET h1 == clk_set_rate(ingenic_drm_crtc_update_timings(h, cs.mode),
                                cs.mode.clock)
         IN IF soc_info.needs_dev_clk
            THEN [h1 EXCEPT !.lcd = (3 * h1.pix) \div 2,
                            !.log = Append(@, "lcd_clk")]
            ELSE h1
    ELSE h

\* the modeset part of ingenic_drm_crtc_atomic_flush()
FlushModeset(h, cs) ==
    IF drm_atomic_crtc_needs_modeset(cs)
    THEN clk_set_rate(ingenic_drm_crtc_update_timings(h, cs.mode), cs.mode.clock)
    ELSE h

ingenic_drm_enable_vblank(h) ==
    regmap_update_bits(h, "CTRL", [eof_irq |-> TRUE])

ingenic_drm_disable_vblank(h) ==
    regmap_update_bits(h, "CTRL", [eof_irq |-> FALSE])

---------------------------------------------------------------------------
(* Encoder: ingenic_drm_encoder_atomic_mode_set() *)

\* the connector's display_info: bus flags, bus format and connector type
Panels ==
    [sharp : BOOLEAN, tv : BOOLEAN,
     bus_format : {"RGB565_1X16", "RGB666_1X18", "RGB888_1X24", "RGB888_3X8"},
     de_low : BOOLEAN, pixdata_negedge : BOOLEAN]

\* the panel of the commit machine: a generic 24-bit TFT
GenericPanel ==
    [sharp |-> FALSE, tv |-> FALSE, bus_format |-> "RGB888_1X24",
     de_low |-> FALSE, pixdata_negedge |-> FALSE]

\* faulty variant: a 24-bit interface is always driven in 24-bit mode
EncoderCfg_no_downgrade(pn, primary_st) ==
    LET base == IF pn.sharp
                THEN {"MODE_SPECIAL_TFT_1", "REV_POLARITY"}
                ELSE {"PS_DISABLE", "CLS_DISABLE", "SPL_DISABLE", "REV_DISABLE"}
        flags == (IF pn.de_low THEN {"DE_ACTIVE_LOW"} ELSE {})
                 \cup (IF pn.pixdata_negedge THEN {"PCLK_FALLING_EDGE"} ELSE {})
        drive ==
            IF pn.sharp THEN {}
            ELSE IF pn.tv THEN {"MODE_TV_OUT_P"}
            ELSE CASE pn.bus_format = "RGB565_1X16" -> {"MODE_GENERIC_16BIT"}
                   [] pn.bus_format = "RGB666_1X18" -> {"MODE_GENERIC_18BIT"}
                   [] pn.bus_format = "RGB888_1X24" -> {"MODE_GENERIC_24BIT"}
                   [] pn.bus_format = "RGB888_3X8"  -> {"MODE_8BIT_SERIAL"}
                   [] OTHER -> {}
    IN base \cup flags \cup drive

\* the value written to JZ_REG_LCD_CFG, as the set of its flags
EncoderCfg(pn, primary_st) ==
    LET base == IF pn.sharp
                THEN {"MODE_SPECIAL_TFT_1", "REV_POLARITY"}
                ELSE {"PS_DISABLE", "CLS_DISABLE", "SPL_DISABLE", "REV_DISABLE"}
        flags == (IF pn.de_low THEN {"DE_ACTIVE_LOW"} ELSE {})
                 \cup (IF pn.pixdata_negedge THEN {"PCLK_FALLING_EDGE"} ELSE {})
        finfo_small == primary_st.fb # NoFb /\ Cpp(primary_st.fb.format) < 3
        drive ==
            IF pn.sharp THEN {}
            ELSE IF pn.tv THEN {"MODE_TV_OUT_P"}
            ELSE CASE pn.bus_format = "RGB565_1X16" -> {"MODE_GENERIC_16BIT"}
                   [] pn.bus_format = "RGB666_1X18" -> {"MODE_GENERIC_18BIT"}
                   [] pn.bus_format = "RGB888_1X24" ->
                        IF finfo_small THEN {"MODE_GENERIC_18BIT"}
                        ELSE {"MODE_GENERIC_24BIT"}
                   [] pn.bus_format = "RGB888_3X8"  -> {"MODE_8BIT_SERIAL"}
                   [] OTHER -> {}
    IN base \cup flags \cup drive

ingenic_drm_encoder_atomic_mode_set(h, pn, primary_st) ==
    regmap_write(h, "CFG", EncoderCfg(pn, primary_st))

---------------------------------------------------------------------------
(* The hardware bundle of the current state *)

H == [regs |-> regs, desc |-> dma_hwdesc, pix |-> pix_clk, lcd |-> lcd_clk,
      log |-> log, sync |-> cache_sync]

SetH(h) ==
    /\ regs' = h.regs
    /\ dma_hwdesc' = h.desc
    /\ pix_clk' = h.pix
    /\ lcd_clk' = h.lcd
    /\ log' = h.log
    /\ cache_sync' = h.sync

---------------------------------------------------------------------------
(* Bring-up: the state ingenic_drm_bind() leaves *)

\* the register writes of ingenic_drm_bind(): the descriptor chain and OSD
ingenic_drm_bind_writes(h) ==
    LET h1 == regmap_write(h, "DA0", dma_hwdesc_phys(0))
        h2 == regmap_write(h1, "DA1", dma_hwdesc_phys(1))
    IN IF soc_info.has_osd
       THEN regmap_write(h2, "OSDC",
                         [osden |-> TRUE, f0en |-> FALSE, f1en |-> FALSE])
       ELSE h2

BindRegs ==
    [InitRegs EXCEPT
       !.DA0 = dma_hwdesc_phys(0),
       !.DA1 = dma_hwdesc_phys(1),
       !.OSDC.osden = soc_info.has_osd]

NoTxn == [planes |-> {}, connectors |-> FALSE]

\* event_lock not held
LockFree == [holder |-> "free", io |-> FALSE]

\* no status bit set
NoStatus == [eof |-> FALSE, disabled |-> FALSE]

\* the interrupt handler is not running
IrqIdle ==
    [pc |-> "idle", state |-> NoStatus, orig |-> NoStatus, cleared |-> FALSE,
     notified |-> FALSE, clobbered |-> FALSE, ret |-> "none"]
NoLast == [result |-> "none", why |-> "", event |-> FALSE]
AllOff == [p \in PlaneIds |-> PlaneOff]

\* rate of the lcd clock's parent, kHz
ParentRate == 360000

\* the device clock part of ingenic_drm_bind(): when priv->lcd_clk exists it
\* is set to the rate of its parent clock
ingenic_drm_bind_clocks(h) ==
    IF soc_info.needs_dev_clk
    THEN [h EXCEPT !.lcd = ParentRate, !.log = Append(@, "lcd_clk")]
    ELSE h

BindCommon ==
    /\ \E b \in Boards : soc_info = b.soc /\ ipu_plane = (b.soc.has_osd /\ b.ipu)
    /\ regs = BindRegs
    /\ dma_hwdesc = InitDesc
    /\ pix_clk = 0
    /\ lcd_clk = IF soc_info.needs_dev_clk THEN ParentRate ELSE 0
    /\ plane = AllOff
    /\ crtc = NoCrtcState
    /\ old_plane = AllOff
    /\ old_crtc = NoCrtcState
    /\ in_state = NoTxn
    /\ vblank = [on |-> FALSE, enabled |-> FALSE]
    /\ armed = FALSE
    /\ sent = 0
    /\ last = NoLast
    /\ log = <<>>
    /\ event_lock = LockFree
    /\ irq = IrqIdle
    /\ cache_sync = <<>>

Init ==
    /\ BindCommon
    /\ panel = GenericPanel
    /\ panel_is_sharp = FALSE
    /\ pc = "idle"
    /\ tmode = NoMode
    /\ ingenic_drm_cached_gem_buf = FALSE

---------------------------------------------------------------------------
(* Inputs of a transaction *)

\* modes the negotiation layer proposes
SubmitModes == {ModeVGA, ModeWide, ModeTall, ModeFast}

Fb565(n) == Fb("RGB565", n, 640)

\* plane states a transaction may propose for plane p
PlaneInputs(p) ==
    CASE p = "f1" ->
            {PlaneOff}
            \cup {PlaneOn(Fb565(n), 0, 0, 640, 480, 0, 0, 640, 480) :
                     n \in 1..MaxBuffers}
            \cup {PlaneOn(Fb("XRGB8888", 1, 640), 0, 0, 640, 480, 0, 0, 640, 480),
                  \* panned down by one line / right by one pixel
                  PlaneOn(Fb565(1), 0, 0, 640, 480, 0, 1, 640, 480),
                  PlaneOn(Fb565(1), 0, 0, 640, 480, 1, 0, 640, 480),
                  \* source half as wide as the destination
                  PlaneOn(Fb565(1), 0, 0, 640, 480, 0, 0, 320, 480)}
      [] p = "f0" ->
            {PlaneOff,
             PlaneOn(Fb565(1), 16, 8, 320, 240, 0, 0, 320, 240),
             PlaneOn(Fb("XRGB1555", 1, 640), 0, 0, 640, 480, 0, 0, 640, 480)}
      [] p = "ipu" ->
            {PlaneOff,
             PlaneOn(Fb("XRGB8888", 1, 640), 0, 0, 640, 480, 0, 0, 640, 480)}

\* what the DRM core lets through to the driver's callbacks
\* (drm_atomic_crtc_check, drm_atomic_plane_check)
CoreAccepts(cs, news) ==
    /\ cs.active => Enable(cs)
    /\ ~(cs.event /\ ~cs.active /\ ~crtc.active)

\* the transactions the negotiation layer submits: one that names a plane
\* leaves the CRTC as it is, and is made while the CRTC is active; the CRTC
\* is disabled only once every plane has been detached
Proposed(m, act, touched, news) ==
    /\ (touched # {}) => (m = crtc.mode /\ act = crtc.active /\ crtc.active)
    /\ (m = NoMode) => (\A p \in PlaneIds : ~HasCrtc(news[p]))

\* drm_atomic_helper_check(): check_modeset, then the plane callbacks, then
\* the crtc callback.  cs0 / news are the proposed states, touched the
\* planes the transaction names.
drm_atomic_helper_check(cs0, news, touched) ==
    LET mc  == cs0.mode # crtc.mode
        ac  == cs0.active # crtc.active
        cs1 == [cs0 EXCEPT !.mode_changed = mc, !.active_changed = ac,
                           !.no_vblank = FALSE]
        affected == IF mc \/ ac THEN {q \in PlaneIds : HasCrtc(plane[q])} ELSE {}
        planes1  == touched \cup affected
        pr  == CheckPlanes(1, planes1, plane, news, cs1)
        cs2 == [cs1 EXCEPT !.mode_changed = pr.mode_changed]
        cr  == ingenic_drm_crtc_atomic_check(cs2, news)
    IN IF pr.ret # "ok"
       THEN [ret |-> pr.ret, why |-> "plane_" \o pr.ret, crtc |-> cs1,
             txn |-> NoTxn]
       ELSE IF cr.ret # "ok"
       THEN [ret |-> cr.ret, why |-> cr.why, crtc |-> cs2, txn |-> NoTxn]
       ELSE [ret |-> "ok", why |-> "",
             crtc |-> [cs2 EXCEPT !.no_vblank = cr.no_vblank],
             txn |-> [planes |-> planes1 \cup cr.pulled,
                      connectors |-> mc \/ ac]]

---------------------------------------------------------------------------
(* Phases of drm_atomic_helper_commit_tail() *)

PhaseOrder == <<"disable", "poll", "mode_set", "begin", "plane_ipu",
                "plane_f1", "plane_f0", "flush", "enable", "cleanup">>

PhasePlane(ph) ==
    CASE ph = "plane_ipu" -> "ipu"
      [] ph = "plane_f1"  -> "f1"
      [] ph = "plane_f0"  -> "f0"

\* whether the helper runs phase ph for the transaction (cs, ocs, txn, ...)
Applicable(ph, cs, ocs, txn, pls, opls) ==
    CASE ph \in {"disable", "poll"} ->
            drm_atomic_crtc_needs_modeset(cs) /\ ocs.active
      [] ph = "mode_set" ->
            txn.connectors /\ cs.mode_changed /\ Enable(cs)
      [] ph \in {"plane_ipu", "plane_f1", "plane_f0"} ->
            /\ PhasePlane(ph) \in txn.planes
            /\ (HasCrtc(opls[PhasePlane(ph)]) \/ HasCrtc(pls[PhasePlane(ph)]))
      [] ph = "enable" ->
            drm_atomic_crtc_needs_modeset(cs) /\ cs.active
      [] OTHER -> TRUE

PhaseIndex(ph) == CHOOSE i \in 1..Len(PhaseOrder) : PhaseOrder[i] = ph

\* the first phase after position i that the helper runs
NextPhaseFrom(i, cs, ocs, txn, pls, opls) ==
    LET c == {j \in (i + 1)..Len(PhaseOrder) :
                 Applicable(PhaseOrder[j], cs, ocs, txn, pls, opls)}
    IN PhaseOrder[CHOOSE j \in c : \A k \in c : j <= k]

Advance ==
    pc' = NextPhaseFrom(PhaseIndex(pc), crtc, old_crtc, in_state, plane, old_plane)

---------------------------------------------------------------------------
(* submit(transaction): drm_atomic_helper_check() and, when it accepts,    *)
(* drm_atomic_helper_swap_state()                                          *)

ProposedPlanes(touched) ==
    IF touched = {} THEN {plane}
    ELSE UNION {{[plane EXCEPT ![p] = st] : st \in PlaneInputs(p)} : p \in touched}

Submit ==
    /\ pc = "idle"
    /\ ~armed
    /\ \E m \in {crtc.mode, NoMode} \cup SubmitModes, act \in BOOLEAN,
          ev \in BOOLEAN,
          touched \in {{}} \cup {{p} : p \in {q \in PlaneIds : Present(q)}} :
         \E news \in ProposedPlanes(touched) :
          /\ Proposed(m, act, touched, news)
          /\
            LET cs0 == [crtc EXCEPT !.mode = m, !.active = act, !.event = ev,
                                    !.mode_changed = FALSE,
                                    !.active_changed = FALSE]
                res == drm_atomic_helper_check(cs0, news, touched)
            IN /\ CoreAccepts(cs0, news)
               /\ IF res.ret = "ok"
                  THEN /\ plane' = news
                       /\ crtc' = res.crtc
                       /\ old_plane' = plane
                       /\ old_crtc' = crtc
                       /\ in_state' = res.txn
                       /\ sent' = 0
                       /\ last' = [result |-> "accepted", why |-> "",
                                   event |-> ev]
                       /\ log' = <<>>
                       /\ pc' = NextPhaseFrom(0, res.crtc, crtc, res.txn,
                                              news, plane)
                       /\ cache_sync' = <<>>
                       /\ UNCHANGED <<regs, dma_hwdesc, pix_clk>>
                  ELSE /\ last' = [result |-> "rejected", why |-> res.why,
                                   event |-> FALSE]
                       /\ UNCHANGED <<regs, dma_hwdesc, pix_clk, plane, crtc,
                                      old_plane, old_crtc, in_state,
                                      log, pc, cache_sync>>
                       /\ sent' = 0
    /\ UNCHANGED <<soc_info, ipu_plane, panel, panel_is_sharp, lcd_clk,
                   vblank, armed, tmode, event_lock, irq,
                   ingenic_drm_cached_gem_buf>>

---------------------------------------------------------------------------
(* Commit phases *)

Board == <<soc_info, ipu_plane, panel, tmode, ingenic_drm_cached_gem_buf>>
Fixed == <<Board, event_lock, irq>>
TxnVars == <<plane, old_plane, old_crtc, in_state, last>>

\* register part of ingenic_drm_crtc_atomic_disable(), after
\* drm_crtc_vblank_off()
ingenic_drm_crtc_atomic_disable(h) ==
    regmap_update_bits(h, "CTRL", [disable |-> TRUE])

\* drm_crtc_vblank_off(), then the disable request
CrtcAtomicDisable ==
    /\ pc = "disable"
    /\ LET h0 == drm_crtc_vblank_off(H)
           h1 == IF vblank.enabled THEN ingenic_drm_disable_vblank(h0) ELSE h0
       IN SetH(ingenic_drm_crtc_atomic_disable(h1))
    /\ vblank' = [on |-> FALSE, enabled |-> FALSE]
    /\ armed' = FALSE
    /\ sent' = IF armed /\ sent < 2 THEN sent + 1 ELSE sent
    /\ Advance
    /\ UNCHANGED <<Fixed, TxnVars, crtc, panel_is_sharp>>

\* the timeout_us argument of the poll in ingenic_drm_crtc_atomic_disable()
PollTimeoutUs == 0

\* one round of regmap_read_poll_timeout(map, addr, val, cond, sleep_us,
\* timeout_us): the loop ends when the condition holds, or when a non-zero
\* timeout has expired; a timeout of 0 never expires
regmap_read_poll_timeout(cond, timeout_us, expired) ==
    IF cond THEN "done"
    ELSE IF timeout_us # 0 /\ expired THEN "ETIMEDOUT"
    ELSE "again"

\* regmap_read_poll_timeout(.., var & JZ_LCD_STATE_DISABLED, 1000, 0); the
\* result of the poll is dropped, ingenic_drm_crtc_atomic_disable() is void
PollDisabled ==
    /\ pc = "poll"
    /\ \E expired \in BOOLEAN :
          regmap_read_poll_timeout(regs.LCDSTATE.disabled, PollTimeoutUs,
                                   expired) # "again"
    /\ Advance
    /\ UNCHANGED <<Fixed, TxnVars, crtc, panel_is_sharp, regs, dma_hwdesc,
                   pix_clk, lcd_clk,
                   cache_sync, log, vblank, armed, sent>>

EncoderModeSet ==
    /\ pc = "mode_set"
    /\ panel_is_sharp' = panel.sharp
    /\ SetH(ingenic_drm_encoder_atomic_mode_set(H, panel, plane["f1"]))
    /\ Advance
    /\ UNCHANGED <<Fixed, TxnVars, crtc, vblank, armed, sent>>

CrtcAtomicBegin ==
    /\ pc = "begin"
    /\ SetH(ingenic_drm_crtc_atomic_begin(H, crtc, plane["ipu"]))
    /\ Advance
    /\ UNCHANGED <<Fixed, TxnVars, crtc, panel_is_sharp, vblank, armed, sent>>

\* atomic_disable / atomic_update of one plane of the transaction; the IPU
\* plane's callbacks belong to the IPU driver
PlaneCommit ==
    /\ pc \in {"plane_ipu", "plane_f1", "plane_f0"}
    /\ LET p == PhasePlane(pc)
       IN IF p = "ipu" THEN SetH(H)
          ELSE IF HasCrtc(old_plane[p]) /\ ~HasCrtc(plane[p])
          THEN SetH(ingenic_drm_plane_disable(H, p))
          ELSE SetH(ingenic_drm_plane_atomic_update(H, p, plane[p], crtc))
    /\ Advance
    /\ UNCHANGED <<Fixed, TxnVars, crtc, panel_is_sharp, vblank, armed, sent>>

\* ingenic_drm_crtc_atomic_flush(): timings and pixel clock on a modeset,
\* then the completion event under event_lock
CrtcAtomicFlush ==
    /\ pc = "flush"
    /\ LET h1 == FlushModeset(H, crtc)
           get_ok == vblank.on
           h2 == IF crtc.event /\ get_ok /\ ~vblank.enabled
                 THEN [ingenic_drm_enable_vblank(h1) EXCEPT !.log = h1.log]
                 ELSE h1
       IN /\ SetH(h2)
          /\ IF crtc.event
             THEN /\ crtc' = [crtc EXCEPT !.event = FALSE]
                  /\ IF get_ok
                     THEN /\ armed' = TRUE
                          /\ vblank' = [vblank EXCEPT !.enabled = TRUE]
                          /\ sent' = sent
                     ELSE /\ sent' = IF sent < 2 THEN sent + 1 ELSE sent
                          /\ UNCHANGED <<armed, vblank>>
             ELSE UNCHANGED <<crtc, armed, vblank, sent>>
    /\ Advance
    /\ UNCHANGED <<Fixed, TxnVars, panel_is_sharp>>

\* ingenic_drm_crtc_atomic_enable(), ending in drm_crtc_vblank_on()
CrtcAtomicEnable ==
    /\ pc = "enable"
    /\ SetH(ingenic_drm_crtc_atomic_enable(H))
    /\ vblank' = [vblank EXCEPT !.on = TRUE]
    /\ Advance
    /\ UNCHANGED <<Fixed, TxnVars, crtc, panel_is_sharp, armed, sent>>

\* the commit is done: the old states are released
CommitCleanup ==
    /\ pc = "cleanup"
    /\ pc' = "idle"
    /\ old_plane' = AllOff
    /\ old_crtc' = NoCrtcState
    /\ in_state' = NoTxn
    /\ log' = <<>>
    /\ cache_sync' = <<>>
    /\ crtc' = [crtc EXCEPT !.mode_changed = FALSE, !.active_changed = FALSE]
    /\ UNCHANGED <<Fixed, panel_is_sharp, regs, dma_hwdesc, pix_clk, lcd_clk, plane,
                   vblank, armed, sent, last>>

---------------------------------------------------------------------------
(* Interrupt handler and vertical-blank subsystem *)

\* faulty variant: the status bit is cleared without notifying the vblank subsystem
ingenic_drm_irq_handler_no_notify(h) ==
    [h |-> regmap_update_bits(h, "LCDSTATE", [eof |-> FALSE]),
     notify |-> FALSE]

\* ingenic_drm_irq_handler(): the registers after it, and whether it calls
\* drm_crtc_handle_vblank()
ingenic_drm_irq_handler(h) ==
    [h |-> regmap_update_bits(h, "LCDSTATE", [eof |-> FALSE]),
     notify |-> h.regs.LCDSTATE.eof]

\* the interrupt line is raised by a set end-of-frame status bit whose
\* interrupt is enabled
IrqHandler ==
    /\ regs.LCDSTATE.eof /\ regs.CTRL.eof_irq
    /\ LET r == ingenic_drm_irq_handler(H)
       IN /\ regs' = r.h.regs
          /\ IF r.notify /\ vblank.enabled /\ armed
             THEN /\ armed' = FALSE
                  /\ sent' = IF sent < 2 THEN sent + 1 ELSE sent
             ELSE UNCHANGED <<armed, sent>>
    /\ UNCHANGED <<Fixed, TxnVars, crtc, panel_is_sharp, dma_hwdesc, pix_clk,
                   lcd_clk, cache_sync,
                   log, pc, vblank>>

\* the vblank disable timer: nobody holds a vblank reference any more
VblankDisableTimer ==
    /\ vblank.enabled /\ ~armed
    /\ regs' = ingenic_drm_disable_vblank(H).regs
    /\ vblank' = [vblank EXCEPT !.enabled = FALSE]
    /\ UNCHANGED <<Fixed, TxnVars, crtc, panel_is_sharp, dma_hwdesc, pix_clk,
                   lcd_clk, cache_sync,
                   log, pc, armed, sent>>

---------------------------------------------------------------------------
(* The scanout engine *)

\* a plane is being scanned out with a descriptor that requests the
\* end-of-frame interrupt
Scanning ==
    IF soc_info.has_osd
    THEN \/ (regs.OSDC.f1en /\ dma_hwdesc[1].cmd.eof_irq)
         \/ (regs.OSDC.f0en /\ dma_hwdesc[0].cmd.eof_irq)
         \/ regs.OSDCTRL.ipu
    ELSE dma_hwdesc[0].cmd.eof_irq

HwEndOfFrame ==
    /\ regs.CTRL.enable /\ ~regs.LCDSTATE.disabled
    /\ Scanning
    /\ ~regs.LCDSTATE.eof
    /\ regs' = [regs EXCEPT !.LCDSTATE.eof = TRUE]
    /\ UNCHANGED <<Fixed, TxnVars, crtc, panel_is_sharp, dma_hwdesc, pix_clk,
                   lcd_clk, cache_sync,
                   log, pc, vblank, armed, sent>>

HwDisableDone ==
    /\ regs.CTRL.disable /\ ~regs.LCDSTATE.disabled
    /\ regs' = [regs EXCEPT !.LCDSTATE.disabled = TRUE]
    /\ UNCHANGED <<Fixed, TxnVars, crtc, panel_is_sharp, dma_hwdesc, pix_clk,
                   lcd_clk, cache_sync,
                   log, pc, vblank, armed, sent>>

---------------------------------------------------------------------------
(* The commit machine *)

Next ==
    \/ Submit
    \/ CrtcAtomicDisable
    \/ PollDisabled
    \/ EncoderModeSet
    \/ CrtcAtomicBegin
    \/ PlaneCommit
    \/ CrtcAtomicFlush
    \/ CrtcAtomicEnable
    \/ CommitCleanup
    \/ IrqHandler
    \/ VblankDisableTimer
    \/ HwEndOfFrame
    \/ HwDisableDone

Spec == Init /\ [][Next]_vars

\* the steps of the running commit
CommitStep ==
    \/ CrtcAtomicDisable
    \/ PollDisabled
    \/ EncoderModeSet
    \/ CrtcAtomicBegin
    \/ PlaneCommit
    \/ CrtcAtomicFlush
    \/ CrtcAtomicEnable
    \/ CommitCleanup

\* The commit worker keeps running, the scanout engine keeps producing frames
\* and completing disable requests, and a raised interrupt is served.
FairSpec ==
    /\ Spec
    /\ WF_vars(CommitStep)
    /\ WF_vars(HwEndOfFrame)
    /\ WF_vars(HwDisableDone)
    /\ WF_vars(IrqHandler)

\* As FairSpec, but the scanout engine is not obliged to complete a disable
\* request: the disabled status bit may never be set.
FairSpecHwStalls ==
    /\ Spec
    /\ WF_vars(CommitStep)
    /\ WF_vars(HwEndOfFrame)
    /\ WF_vars(IrqHandler)

---------------------------------------------------------------------------
(* The flush and the interrupt handler statement by statement.  The SoCs   *)
(* of ingenic_drm_of_match have one CPU: the handler preempts the commit   *)
(* worker wherever interrupts are enabled and runs to completion, only the *)
(* hardware acts while it runs; spin_lock_irq() keeps it out while the     *)
(* flush holds event_lock.                                                 *)

\* drm_crtc_vblank_get(): fails while vblank is off (drm_crtc_vblank_off());
\* the first reference calls the driver's enable_vblank()
drm_crtc_vblank_get(vb) ==
    [ret |-> IF vb.on THEN 0 ELSE -22,
     enable_vblank |-> vb.on /\ ~vb.enabled]

\* faulty variant: the event is armed whether or not the vblank reference was obtained
ingenic_drm_crtc_atomic_flush_event_arm(get_ret) ==
    [arm |-> TRUE, send |-> get_ret # 0]

\* the body of the locked region of ingenic_drm_crtc_atomic_flush():
\* drm_crtc_arm_vblank_event() or drm_crtc_send_vblank_event()
ingenic_drm_crtc_atomic_flush_event(get_ret) ==
    [arm |-> get_ret = 0, send |-> get_ret # 0]

\* the position after the flush
AdvanceFromFlush ==
    pc' = NextPhaseFrom(PhaseIndex("flush"), crtc, old_crtc, in_state, plane,
                        old_plane)

\* timings and pixel clock on a modeset; event = state->event;
\* state->event = NULL
FlushTimings ==
    /\ pc = "flush"
    /\ SetH(FlushModeset(H, crtc))
    /\ IF crtc.event
       THEN /\ crtc' = [crtc EXCEPT !.event = FALSE]
            /\ pc' = "flush_lock"
       ELSE /\ UNCHANGED crtc
            /\ Advance
    /\ UNCHANGED <<Fixed, TxnVars, panel_is_sharp, vblank, armed, sent>>

\* spin_lock_irq(&crtc->dev->event_lock)
FlushLock ==
    /\ pc = "flush_lock"
    /\ event_lock.holder = "free"
    /\ event_lock' = [holder |-> "flush", io |-> FALSE]
    /\ pc' = "flush_event"
    /\ UNCHANGED <<Board, irq, TxnVars, crtc, panel_is_sharp, regs, dma_hwdesc,
                   pix_clk, lcd_clk,
                   cache_sync, log, vblank, armed, sent>>

\* drm_crtc_vblank_get(), then the event is armed or sent; io records a
\* register access made while the lock is held
FlushEvent ==
    /\ pc = "flush_event"
    /\ LET get == drm_crtc_vblank_get(vblank)
           ev  == ingenic_drm_crtc_atomic_flush_event(get.ret)
       IN /\ regs' = IF get.enable_vblank
                     THEN ingenic_drm_enable_vblank(H).regs
                     ELSE regs
          /\ event_lock' = [event_lock EXCEPT
                              !.io = @ \/ (get.enable_vblank
                                           /\ event_lock.holder # "free")]
          /\ vblank' = IF get.ret = 0 THEN [vblank EXCEPT !.enabled = TRUE]
                       ELSE vblank
          /\ armed' = (armed \/ ev.arm)
          /\ sent' = IF ev.send /\ sent < 2 THEN sent + 1 ELSE sent
    /\ pc' = "flush_unlock"
    /\ UNCHANGED <<Board, irq, TxnVars, crtc, panel_is_sharp, dma_hwdesc,
                   pix_clk, lcd_clk,
                   cache_sync, log>>

\* spin_unlock_irq(&crtc->dev->event_lock)
FlushUnlock ==
    /\ pc = "flush_unlock"
    /\ event_lock' = LockFree
    /\ AdvanceFromFlush
    /\ UNCHANGED <<Board, irq, TxnVars, crtc, panel_is_sharp, regs, dma_hwdesc,
                   pix_clk, lcd_clk,
                   cache_sync, log, vblank, armed, sent>>

IrqUnchanged ==
    UNCHANGED <<Board, event_lock, TxnVars, crtc, panel_is_sharp, dma_hwdesc,
                pix_clk, lcd_clk,
                   cache_sync, log, pc>>

\* regmap_read(priv->map, JZ_REG_LCD_STATE, &state); the handler is entered
\* whatever the status is (the line is also raised by status bits whose
\* interrupt enables the driver never clears), but not while interrupts are
\* disabled by the flush
IrqRead ==
    /\ irq.pc = "idle"
    /\ event_lock.holder = "free"
    /\ irq' = [IrqIdle EXCEPT !.pc = "update", !.state = regs.LCDSTATE]
    /\ IrqUnchanged
    /\ UNCHANGED <<regs, vblank, armed, sent>>

\* regmap_update_bits(): the register is read ...
IrqUpdateRead ==
    /\ irq.pc = "update"
    /\ irq' = [irq EXCEPT !.pc = "write", !.orig = regs.LCDSTATE]
    /\ IrqUnchanged
    /\ UNCHANGED <<regs, vblank, armed, sent>>

\* ... and written back with the end-of-frame bit cleared when that differs
\* from what was read; a status bit is cleared by writing 0 to it
IrqUpdateWrite ==
    /\ irq.pc = "write"
    /\ LET tmp == [irq.orig EXCEPT !.eof = FALSE]
       IN IF tmp # irq.orig
          THEN /\ regs' = [regs EXCEPT !.LCDSTATE = tmp]
               /\ irq' = [irq EXCEPT
                            !.pc = "vblank",
                            !.cleared = regs.LCDSTATE.eof,
                            !.clobbered = (regs.LCDSTATE.disabled # tmp.disabled)]
          ELSE /\ regs' = regs
               /\ irq' = [irq EXCEPT !.pc = "vblank"]
    /\ IrqUnchanged
    /\ UNCHANGED <<vblank, armed, sent>>

\* if (state & JZ_LCD_STATE_EOF_IRQ) drm_crtc_handle_vblank(): under
\* event_lock, an armed event is sent when vblank is enabled
IrqVblank ==
    /\ irq.pc = "vblank"
    /\ IF irq.state.eof
       THEN /\ event_lock.holder = "free"
            /\ irq' = [irq EXCEPT !.pc = "ret", !.notified = TRUE,
                                  !.ret = "IRQ_HANDLED"]
            /\ IF vblank.enabled /\ armed
               THEN /\ armed' = FALSE
                    /\ sent' = IF sent < 2 THEN sent + 1 ELSE sent
               ELSE UNCHANGED <<armed, sent>>
       ELSE /\ irq' = [irq EXCEPT !.pc = "ret", !.ret = "IRQ_HANDLED"]
            /\ UNCHANGED <<armed, sent>>
    /\ IrqUnchanged
    /\ UNCHANGED <<regs, vblank>>

\* return IRQ_HANDLED
IrqReturn ==
    /\ irq.pc = "ret"
    /\ irq' = IrqIdle
    /\ IrqUnchanged
    /\ UNCHANGED <<regs, vblank, armed, sent>>

\* the transactions of this machine: accepted ones that enable or disable
\* the CRTC or give the primary plane a full-screen buffer
SubmitIrq ==
    /\ Submit
    /\ last'.result = "accepted"
    /\ plane'["f0"] = PlaneOff /\ plane'["ipu"] = PlaneOff
    /\ plane'["f1"] \in {PlaneOff}
          \cup {PlaneOn(Fb565(n), 0, 0, 640, 480, 0, 0, 640, 480) :
                   n \in 1..MaxBuffers}

\* the handler is not running and interrupts are enabled
TaskContext == irq.pc = "idle"

\* what runs in process or timer context: not while the handler runs
TaskStep ==
    \/ (TaskContext /\ SubmitIrq)
    \/ (TaskContext /\ CrtcAtomicDisable)
    \/ (TaskContext /\ PollDisabled)
    \/ (TaskContext /\ EncoderModeSet)
    \/ (TaskContext /\ CrtcAtomicBegin)
    \/ (TaskContext /\ PlaneCommit)
    \/ (TaskContext /\ FlushTimings)
    \/ (TaskContext /\ FlushLock)
    \/ (TaskContext /\ FlushEvent)
    \/ (TaskContext /\ FlushUnlock)
    \/ (TaskContext /\ CrtcAtomicEnable)
    \/ (TaskContext /\ CommitCleanup)
    \/ (TaskContext /\ event_lock.holder = "free" /\ VblankDisableTimer)

NextIrq ==
    \/ TaskStep
    \/ IrqRead
    \/ IrqUpdateRead
    \/ IrqUpdateWrite
    \/ IrqVblank
    \/ IrqReturn
    \/ HwEndOfFrame
    \/ HwDisableDone

SpecIrq == Init /\ [][NextIrq]_vars

---------------------------------------------------------------------------
(* The timing translator on its own: every mode of the grid is translated   *)

InitTimings ==
    /\ BindCommon
    /\ panel \in {pn \in Panels : pn.bus_format = "RGB888_1X24" /\ ~pn.tv
                                  /\ ~pn.de_low /\ ~pn.pixdata_negedge}
    /\ panel_is_sharp = panel.sharp
    /\ pc = "timings"
    /\ tmode \in TimingModes
    /\ ingenic_drm_cached_gem_buf = FALSE

ApplyTimings ==
    /\ pc = "timings"
    /\ SetH(ingenic_drm_crtc_update_timings(H, tmode))
    /\ pc' = "timings_done"
    /\ UNCHANGED <<Fixed, TxnVars, crtc, panel_is_sharp, vblank, armed, sent>>

NextTimings == ApplyTimings

SpecTimings == InitTimings /\ [][NextTimings]_vars

---------------------------------------------------------------------------
(* The plane update on its own, with the cached-buffer policy on or off:    *)
(* the helper swaps in a plane state the check accepts and runs the plane's *)
(* atomic_update / atomic_disable                                           *)

InitPlaneUpdate ==
    /\ BindCommon
    /\ panel = GenericPanel
    /\ panel_is_sharp = FALSE
    /\ pc = "plane_input"
    /\ tmode = NoMode
    /\ ingenic_drm_cached_gem_buf \in BOOLEAN

\* the CRTC state of the update: active in ModeVGA, mc is mode_changed as
\* check_modeset leaves it
UpdateCrtc(mc) ==
    [NoCrtcState EXCEPT !.mode = ModeVGA, !.active = TRUE, !.mode_changed = mc]

\* a transaction on plane p passes ingenic_drm_plane_atomic_check() and its
\* state is swapped in; the previous commit, if any, has completed
PlaneStateInput ==
    /\ pc \in {"plane_input", "flush"}
    /\ \E p \in {"f1", "f0"}, mc \in BOOLEAN :
          \E st \in PlaneInputs(p) :
             LET res == ingenic_drm_plane_atomic_check(plane[p], st,
                                                       UpdateCrtc(mc))
             IN /\ Present(p)
                /\ HasCrtc(plane[p]) \/ HasCrtc(st)
                /\ res.ret = "ok"
                /\ plane' = [plane EXCEPT ![p] = st]
                /\ old_plane' = plane
                /\ crtc' = UpdateCrtc(res.mode_changed)
                /\ old_crtc' = UpdateCrtc(FALSE)
                /\ in_state' = [planes |-> {p}, connectors |-> FALSE]
                /\ pc' = IF p = "f1" THEN "plane_f1" ELSE "plane_f0"
    /\ log' = <<>>
    /\ cache_sync' = <<>>
    /\ UNCHANGED <<Fixed, panel_is_sharp, regs, dma_hwdesc, pix_clk, lcd_clk,
                   vblank, armed, sent, last>>

NextPlaneUpdate == PlaneStateInput \/ PlaneCommit

SpecPlaneUpdate == InitPlaneUpdate /\ [][NextPlaneUpdate]_vars

---------------------------------------------------------------------------
(* The encoder mode-set on its own, for every panel: a modeset whose        *)
(* primary plane state has passed the check reaches the encoder callback    *)

InitEncoder ==
    /\ BindCommon
    /\ panel \in Panels
    /\ panel_is_sharp = FALSE
    /\ pc = "encoder_input"
    /\ tmode = NoMode
    /\ ingenic_drm_cached_gem_buf = FALSE

\* the states of a modeset to ModeVGA are swapped in; the primary plane
\* carries a buffer the plane check accepts, or none
EncoderInput ==
    /\ pc = "encoder_input"
    /\ \E st \in PlaneInputs("f1") :
          /\ ingenic_drm_plane_atomic_check(plane["f1"], st,
                                            UpdateCrtc(TRUE)).ret = "ok"
          /\ plane' = [plane EXCEPT !["f1"] = st]
    /\ old_plane' = plane
    /\ crtc' = UpdateCrtc(TRUE)
    /\ old_crtc' = crtc
    /\ in_state' = [planes |-> {"f1"}, connectors |-> TRUE]
    /\ pc' = "mode_set"
    /\ UNCHANGED <<Fixed, panel_is_sharp, regs, dma_hwdesc, pix_clk, lcd_clk,
                   log, cache_sync, vblank, armed, sent, last>>

NextEncoder == EncoderInput \/ EncoderModeSet

SpecEncoder == InitEncoder /\ [][NextEncoder]_vars

---------------------------------------------------------------------------
(* Vocabulary of the properties *)

Live(st) == st.fb # NoFb

AllPlanesOff == \A p \in PlaneIds : ~Live(plane[p])
SomePlaneLive == \E p \in PlaneIds : Live(plane[p])

\* buffer presence, destination rectangle and pixel format agree
SameShape(a, b) ==
    /\ Live(a) = Live(b)
    /\ a.crtc_x = b.crtc_x /\ a.crtc_y = b.crtc_y
    /\ a.crtc_w = b.crtc_w /\ a.crtc_h = b.crtc_h
    /\ a.fb.format = b.fb.format

\* a commit is running
InFlight == pc \in {PhaseOrder[i] : i \in 1..Len(PhaseOrder)}

\* the flush callback of the running commit has returned
AfterFlush == pc \in {"enable", "cleanup"}

\* the transaction changes the CRTC's mode or its active flag
FrameworkModeset == old_crtc.mode # crtc.mode \/ old_crtc.active # crtc.active

Range(q) == {q[i] : i \in DOMAIN q}

\* the running commit gives plane p another buffer and changes nothing else
SwapOnly(p) ==
    /\ Live(old_plane[p]) /\ Live(plane[p])
    /\ plane[p].fb # old_plane[p].fb
    /\ plane[p].fb.format = old_plane[p].fb.format
    /\ plane[p] = [old_plane[p] EXCEPT !.fb = plane[p].fb]

\* the running commit only swaps buffers of live planes
SwapCommit ==
    /\ InFlight
    /\ ~FrameworkModeset
    /\ \E p \in {"f1", "f0"} : SwapOnly(p)
    /\ \A p \in PlaneIds : plane[p] = old_plane[p] \/ SwapOnly(p)

\* the mode has been translated into the timing registers
TimingsDone == pc = "timings_done"

---------------------------------------------------------------------------
(* Properties *)

\* C1, as the specification states it: in no committed state do the Overlay
\* plane (f0) and the Image-Processing plane both carry a live buffer (a
\* transaction that would make them so is rejected).
C1_OverlayIpuExclusive ==
    ~(Live(plane["f0"]) /\ Live(plane["ipu"]))

\* C1, amended: the planes the check keeps apart are the Primary plane (f1)
\* and the Image-Processing plane: a transaction after which both would carry
\* a live buffer is rejected, so in no committed state are both live.
C1_PrimaryIpuExclusive ==
    ~(Live(plane["f1"]) /\ Live(plane["ipu"]))

\* a submit was rejected for f1 + IPU while the Overlay and the IPU plane are
\* both live
C1_Witness ==
    /\ last.result = "rejected" /\ last.why = "f1_ipu"
    /\ Live(plane["ipu"]) /\ Live(plane["f0"])

\* C2 (its flush half): once the flush of an accepted transaction in which
\* every plane ends with no buffer has run, no completion notification is
\* armed against a future vertical-blank interrupt.
C2_AllOffLeavesNothingArmed ==
    (AfterFlush /\ AllPlanesOff) => ~armed

\* C3: a completion notification is never delivered twice, and the
\* notification of an accepted transaction that leaves at least one plane
\* with a buffer is eventually delivered (exactly once), be the transaction a
\* modeset or a fast update.
C3_EventDeliveredOnce ==
    /\ [](sent <= 1)
    /\ ((last.result = "accepted" /\ last.event /\ SomePlaneLive) ~> (sent = 1))

\* the notification of a fast update was armed by the flush and then
\* delivered by the interrupt handler
C3_Witness ==
    /\ pc = "idle" /\ last.result = "accepted" /\ last.event
    /\ SomePlaneLive /\ sent = 1 /\ ~armed /\ vblank.enabled

\* C4: the plane check leaves mode_changed as it was for a plane whose buffer
\* presence, destination position, destination size and pixel format are the
\* same before and after; a transaction in which this is so for every plane,
\* and which does not change the CRTC, is not a modeset.
C4_SameShapeKeepsModeChanged ==
    /\ \A p \in {"f1", "f0"} : \A st \in PlaneInputs(p) : \A mc \in BOOLEAN :
          (Present(p) /\ SameShape(plane[p], st)) =>
              ingenic_drm_plane_atomic_check(
                  plane[p], st, [crtc EXCEPT !.mode_changed = mc]).mode_changed = mc
    /\ (/\ InFlight /\ ~FrameworkModeset
        /\ \A p \in PlaneIds : SameShape(old_plane[p], plane[p]))
          => ~crtc.mode_changed

\* on multi-plane hardware a commit gave the live primary plane another
\* buffer of the same shape and was not marked
C4_Witness ==
    /\ pc = "cleanup" /\ soc_info.has_osd
    /\ SwapOnly("f1")
    /\ SameShape(old_plane["f1"], plane["f1"])
    /\ ~crtc.mode_changed

\* C5: an accepted transaction in which some plane goes from no buffer to a
\* buffer, from a buffer to none, or changes destination position, size or
\* pixel format is a full modeset, on single-plane and multi-plane hardware.
C5_ShapeChangeIsModeset ==
    (InFlight /\ \E p \in PlaneIds : ~SameShape(old_plane[p], plane[p]))
        => drm_atomic_crtc_needs_modeset(crtc)

\* C6, as the specification states it: on single-plane hardware the plane
\* check rejects a plane update (made while the CRTC is active) with a source
\* offset in either axis or with a source size other than the destination
\* size, and no such plane state is ever committed.
C6_RejectsAnySourceOffset ==
    ~soc_info.has_osd =>
       /\ crtc.active => \A st \in PlaneInputs("f1") :
             (/\ Live(st)
              /\ (\/ st.src_x # 0 \/ st.src_y # 0
                  \/ FixInt(st.src_w) # st.crtc_w
                  \/ FixInt(st.src_h) # st.crtc_h))
                => ingenic_drm_plane_atomic_check(plane["f1"], st, crtc).ret # "ok"
       /\ Live(plane["f1"]) =>
             /\ plane["f1"].src_x = 0 /\ plane["f1"].src_y = 0
             /\ FixInt(plane["f1"].src_w) = plane["f1"].crtc_w
             /\ FixInt(plane["f1"].src_h) = plane["f1"].crtc_h

\* C6, amended: on single-plane hardware the plane check rejects a plane
\* update (made while the CRTC is active) with a horizontal source offset or
\* with a source size other than the destination size, and no such plane
\* state is ever committed; the vertical source offset is not looked at.
C6_RejectsHorizontalSourceOffset ==
    ~soc_info.has_osd =>
       /\ crtc.active => \A st \in PlaneInputs("f1") :
             (/\ Live(st)
              /\ (\/ st.src_x # 0
                  \/ FixInt(st.src_w) # st.crtc_w
                  \/ FixInt(st.src_h) # st.crtc_h))
                => ingenic_drm_plane_atomic_check(plane["f1"], st, crtc).ret # "ok"
       /\ Live(plane["f1"]) =>
             /\ plane["f1"].src_x = 0
             /\ FixInt(plane["f1"].src_w) = plane["f1"].crtc_w
             /\ FixInt(plane["f1"].src_h) = plane["f1"].crtc_h

\* on single-plane hardware a plane update was rejected by the driver's own
\* test while the committed plane carries a vertical source offset
C6_Witness ==
    /\ ~soc_info.has_osd
    /\ last.result = "rejected" /\ last.why = "plane_EINVAL"
    /\ Live(plane["f1"]) /\ plane["f1"].src_y # 0

\* the committed mode and the programmed display area are within the SoC's
\* maximum
AppliedModeWithinLimits ==
    /\ crtc.mode.hdisplay <= soc_info.max_width
    /\ crtc.mode.vdisplay <= soc_info.max_height
    /\ regs.DAH.hde - regs.DAH.hds <= soc_info.max_width
    /\ regs.DAV.vde - regs.DAV.vds <= soc_info.max_height

\* a submit rejected for the mode's size or clock changes nothing
RejectLeavesState ==
    (last' # last /\ last'.result = "rejected" /\ last'.why \in {"size", "clock"})
        => UNCHANGED <<regs, dma_hwdesc, pix_clk, lcd_clk, plane, crtc, vblank>>

\* C7: a transaction rejected by the check (active size above the SoC's
\* maximum, pixel clock not achievable) changes no register, descriptor,
\* clock rate or plane state; and the applied mode is never larger than the
\* SoC's maximum.
C7_RejectedChangesNothing ==
    /\ []AppliedModeWithinLimits
    /\ [][RejectLeavesState]_vars

\* a too large mode was rejected while 640x480 is being displayed
C7_Witness ==
    /\ last.result = "rejected" /\ last.why = "size"
    /\ crtc.active /\ regs.VAT.vt = 525 /\ regs.CTRL.enable

\* what a buffer-swap commit has done by each of its phases
SwapIsFastUpdate ==
    SwapCommit =>
       /\ ~drm_atomic_crtc_needs_modeset(crtc)
       /\ \A p \in {"f1", "f0"} :
             SwapOnly(p) =>
                /\ Range(log) \subseteq Range(DescLog(HwdescIdx(p)))
                /\ AfterFlush =>
                      /\ log = DescLog(HwdescIdx(p))
                      /\ dma_hwdesc[HwdescIdx(p)].addr = drm_fb_cma_get_gem_addr(plane[p])
       /\ (AfterFlush /\ last.event) =>
             \/ (armed /\ sent = 0)
             \/ (~armed /\ sent = 1)

\* the interrupt handler that finds and clears the end-of-frame bit delivers
\* the armed notification, once
IrqDelivers ==
    (armed /\ regs.LCDSTATE.eof /\ ~regs'.LCDSTATE.eof)
        => (~armed' /\ sent' = sent + 1 /\ sent' = 1)

C9_StrictlyOrdered ==
    (TimingsDone /\ ValidMode(tmode)) =>
       /\ regs.VAT.vt > regs.DAV.vde
       /\ regs.DAV.vde > regs.DAV.vds
       /\ regs.DAV.vds >= 0
       /\ regs.VAT.ht > regs.DAH.hde
       /\ regs.DAH.hde > regs.DAH.hds
       /\ regs.DAH.hds >= 0

\* C9, amended: for a valid mode vt >= vde > vds >= 0 and
\* ht >= hde > hds >= 0; the total equals the data end exactly when the sync
\* pulse starts right after the active area (sync_start = active size).
C9_Ordered ==
    (TimingsDone /\ ValidMode(tmode)) =>
       /\ regs.VAT.vt >= regs.DAV.vde
       /\ regs.DAV.vde > regs.DAV.vds
       /\ regs.DAV.vds >= 0
       /\ (regs.VAT.vt = regs.DAV.vde) = (tmode.vsync_start = tmode.vdisplay)
       /\ regs.VAT.ht >= regs.DAH.hde
       /\ regs.DAH.hde > regs.DAH.hds
       /\ regs.DAH.hds >= 0
       /\ (regs.VAT.ht = regs.DAH.hde) = (tmode.hsync_start = tmode.hdisplay)

\* a mode whose vertical sync starts right after the active area was
\* translated: total and data end coincide
C9_Witness ==
    /\ TimingsDone
    /\ tmode.vsync_start = tmode.vdisplay
    /\ tmode.vsync_end > tmode.vsync_start
    /\ regs.VAT.vt = regs.DAV.vde

\* C10: the programmed fields are vpe = vsync_end - vsync_start,
\* vds = vtotal - vsync_start, vde = vds + vdisplay,
\* vt = vde + vsync_start - vdisplay and the same horizontally; so vt is the
\* mode's vtotal and ht its htotal (525 lines for 640x480), and the underrun
\* threshold written is (ht * vpe) / 3.
C10_TimingFormulas ==
    TimingsDone =>
       /\ regs.VSYNC.vpe = tmode.vsync_end - tmode.vsync_start
       /\ regs.VSYNC.vps = 0
       /\ regs.DAV.vds = tmode.vtotal - tmode.vsync_start
       /\ regs.DAV.vde = regs.DAV.vds + tmode.vdisplay
       /\ regs.VAT.vt = regs.DAV.vde + tmode.vsync_start - tmode.vdisplay
       /\ regs.VAT.vt = tmode.vtotal
       /\ regs.HSYNC.hpe = tmode.hsync_end - tmode.hsync_start
       /\ regs.HSYNC.hps = 0
       /\ regs.DAH.hds = tmode.htotal - tmode.hsync_start
       /\ regs.DAH.hde = regs.DAH.hds + tmode.hdisplay
       /\ regs.VAT.ht = regs.DAH.hde + tmode.hsync_start - tmode.hdisplay
       /\ regs.VAT.ht = tmode.htotal
       /\ (tmode = ModeVGA => (regs.VAT.vt = 525 /\ regs.VAT.ht = 800))
       /\ regs.IPUR.ipuren
       /\ regs.IPUR.ipur = (tmode.htotal * (tmode.vsync_end - tmode.vsync_start)) \div 3

\* the 640x480 mode was translated: 525 lines in total
C10_Witness ==
    /\ TimingsDone /\ tmode = ModeVGA
    /\ regs.VAT.vt = 525 /\ regs.IPUR.ipur = 533

\* a derived interval of the mode is zero or negative: the sync pulse has no
\* width, or the total does not reach past the start of the sync pulse
DegenerateGeometry(m) ==
    \/ m.vsync_end <= m.vsync_start
    \/ m.vtotal <= m.vsync_start
    \/ m.hsync_end <= m.hsync_start
    \/ m.htotal <= m.hsync_start

\* C11 (its "writes no register" half): when the timing translator is given
\* a mode with a zero or negative derived interval, it leaves every timing
\* register as it was and issues no register write.
C11_DegenerateModeWritesNothing ==
    (TimingsDone /\ DegenerateGeometry(tmode)) =>
       /\ \A r \in TimingRegs : regs[r] = BindRegs[r]
       /\ log = <<>>

\* C12: the disable transition does not poll forever: once the commit waits
\* for the disabled status bit it gets past the wait, whether or not the
\* hardware ever sets the bit.
C12_DisablePollTerminates ==
    (pc = "poll") ~> (pc # "poll")

\* C13: when the interrupt handler returns, it has notified the
\* vertical-blank subsystem exactly if it cleared an end-of-frame bit that was
\* set (no end-of-frame occurrence is cleared without a notification), its
\* write has changed no other status bit, and it reports IRQ_HANDLED;
\* whatever the status was and whenever the hardware set the bit.
C13_NotifiesExactlyWhatItClears ==
    (irq.pc = "ret") =>
       /\ irq.cleared = irq.notified
       /\ ~irq.clobbered
       /\ irq.ret = "IRQ_HANDLED"

\* the flush of a transaction that carries a notification has dealt with it
FlushEventDone ==
    /\ pc \in {"flush_unlock", "enable", "cleanup"}
    /\ last.result = "accepted" /\ last.event

\* the notification is armed or has been delivered, never both and never
\* neither; no notification is delivered twice; the pending slot is empty
FlushEventHandled ==
    /\ sent <= 1
    /\ ~(armed /\ sent = 1)
    /\ FlushEventDone => ((armed /\ sent = 0) \/ (~armed /\ sent = 1))
    /\ pc \in {"flush_lock", "flush_event", "flush_unlock", "enable", "cleanup"}
          => ~crtc.event

\* the locked region arms the notification when the vblank reference is
\* obtained and delivers it when vblank is off, holding the lock; nothing
\* else arms a notification
FlushEventUnderLock ==
    /\ (pc = "flush_event" /\ pc' # pc) =>
          /\ event_lock.holder = "flush" /\ event_lock'.holder = "flush"
          /\ IF vblank.on
             THEN armed' /\ sent' = sent
             ELSE ~armed' /\ sent' = sent + 1
    /\ (armed' /\ ~armed) => (pc = "flush_event" /\ event_lock.holder = "flush")
    /\ (irq.pc # "idle" \/ irq'.pc # "idle") => event_lock.holder # "flush"

\* C14: however the interrupt handler is interleaved with the flush, the
\* transaction's completion notification is handled under event_lock as
\* exactly one of armed (vblank reference obtained) or delivered immediately
\* (vblank off); never both, never neither, and the pending slot is cleared,
\* so that it is not delivered a second time.
C14_EventArmedOrSentOnce ==
    /\ []FlushEventHandled
    /\ [][FlushEventUnderLock]_vars

\* the flush has armed the notification and still holds the lock while an
\* end-of-frame interrupt is pending
C14_Witness ==
    /\ pc = "flush_unlock" /\ event_lock.holder = "flush"
    /\ armed /\ sent = 0 /\ last.event
    /\ regs.LCDSTATE.eof /\ regs.CTRL.eof_irq

\* C17: no register is read or written while event_lock is held, the
\* interrupt-enable toggle made by taking a vblank reference included.
C17_NoRegisterAccessUnderLock ==
    ~event_lock.io

\* the registers with the enable bit of plane p cleared (multi-plane
\* hardware; single-plane hardware has no per-plane enable bit)
EnableBitCleared(rs, p) ==
    IF soc_info.has_osd THEN [rs EXCEPT !.OSDC[EnBit(p)] = FALSE] ELSE rs

\* disabling plane p in the current state, once and twice in a row
DisableOnceAndTwice ==
    \A p \in {"f1", "f0"} :
       LET once  == ingenic_drm_plane_disable(H, p)
           twice == ingenic_drm_plane_disable(once, p)
       IN /\ once.regs = EnableBitCleared(regs, p)
          /\ soc_info.has_osd => ~once.regs.OSDC[EnBit(p)]
          /\ twice.regs = once.regs
          /\ once.desc = dma_hwdesc /\ twice.desc = dma_hwdesc

\* the plane phase of a commit that detaches plane p changes the registers
\* by clearing p's enable bit and in no other way
DisablePhase ==
    \A p \in {"f1", "f0"} :
       (/\ pc \in {"plane_f1", "plane_f0"} /\ PhasePlane(pc) = p /\ pc' # pc
        /\ Live(old_plane[p]) /\ ~Live(plane[p]))
          => (regs' = EnableBitCleared(regs, p) /\ dma_hwdesc' = dma_hwdesc)

\* C15: disable_plane clears the plane's enable bit and leaves every other
\* bit of the register, the other plane's enable bit included, as it was;
\* calling it a second time in a row gives the register state of calling it
\* once, the enable bit cleared both times.
C15_DisableIsIdempotent ==
    /\ []DisableOnceAndTwice
    /\ [][DisablePhase]_vars

\* on multi-plane hardware a commit has disabled the primary plane while the
\* overlay stays enabled
C15_Witness ==
    /\ soc_info.has_osd
    /\ pc \in {"plane_f0", "flush", "enable", "cleanup"}
    /\ Live(old_plane["f1"]) /\ ~Live(plane["f1"])
    /\ ~regs.OSDC.f1en /\ regs.OSDC.f0en

\* the seven read-only offsets
ReadOnlyRegs == {"IID", "SA0", "FID0", "CMD0", "SA1", "FID1", "CMD1"}

\* the log entries that are register writes
RegWrites(q) == {q[i] : i \in DOMAIN q} \cap LcdRegs

\* the register writes an operation issues, started in the current state
Issued(h) == RegWrites(h.log)
Fresh == [H EXCEPT !.log = <<>>]

\* the bundle before ingenic_drm_bind() writes its registers
PreBind ==
    [regs |-> InitRegs, desc |-> InitDesc, pix |-> 0, lcd |-> 0, log |-> <<>>,
     sync |-> <<>>]

\* C16: the writeable table refuses exactly the read-only offsets IID, SA0,
\* FID0, CMD0, SA1, FID1 and CMD1 (a write to one of them does not change the
\* register block), every other offset up to the last register is
\* writeable, and no operation (commit phases, plane operations, interrupt
\* handler, vblank enable / disable, bring-up) issues a write to a read-only
\* offset.
C16_ReadOnlyRegistersNeverWritten ==
    /\ \A r \in LcdRegs : regmap_writeable(r) = (r \notin ReadOnlyRegs)
    /\ \A r \in ReadOnlyRegs : regmap_write(H, r, 1).regs = regs
    /\ \A r \in RegWrites(log) : regmap_writeable(r)
    /\ \A p \in {"f1", "f0"} :
          /\ \A r \in Issued(ingenic_drm_plane_disable(Fresh, p)) :
                regmap_writeable(r)
          /\ \A st \in PlaneInputs(p) : \A mc \in BOOLEAN :
                \A r \in Issued(ingenic_drm_plane_atomic_update(
                                   Fresh, p, st,
                                   [crtc EXCEPT !.mode_changed = mc])) :
                   regmap_writeable(r)
    /\ \A r \in Issued(ingenic_drm_irq_handler(Fresh).h)
                \cup Issued(ingenic_drm_enable_vblank(Fresh))
                \cup Issued(ingenic_drm_disable_vblank(Fresh))
                \cup Issued(ingenic_drm_crtc_atomic_enable(Fresh))
                \cup Issued(ingenic_drm_crtc_atomic_disable(Fresh)) :
          regmap_writeable(r)
    /\ \A r \in Issued(ingenic_drm_bind_writes(PreBind)) : regmap_writeable(r)
    /\ ingenic_drm_bind_writes(PreBind).regs = BindRegs

\* a modeset commit on multi-plane hardware has programmed the routing, the
\* primary plane and the timings
C16_Witness ==
    /\ pc = "cleanup" /\ soc_info.has_osd
    /\ {"OSDCTRL", "OSDC", "XYP1", "SIZE1", "VAT", "IPUR", "CTRL"}
          \subseteq RegWrites(log)

\* C18: each of the two descriptors keeps its next pointer equal to its own
\* physical address and keeps its tag; the scanout-start registers DA0 and
\* DA1 hold the descriptors' physical addresses, are written exactly once
\* each, by the bring-up, and by no commit, plane operation or interrupt.
C18_DescriptorsStayInPlace ==
    /\ \A i \in {0, 1} :
          /\ dma_hwdesc[i].next = dma_hwdesc_phys(i)
          /\ dma_hwdesc[i].id = InitDesc[i].id
    /\ regs.DA0 = dma_hwdesc_phys(0) /\ regs.DA1 = dma_hwdesc_phys(1)
    /\ \A r \in {"DA0", "DA1"} :
          /\ r \notin RegWrites(log)
          /\ r \notin Issued(ingenic_drm_irq_handler(Fresh).h)
          /\ Cardinality({i \in DOMAIN ingenic_drm_bind_writes(PreBind).log :
                             ingenic_drm_bind_writes(PreBind).log[i] = r}) = 1
    /\ ingenic_drm_bind_writes(PreBind).regs.DA0 = dma_hwdesc_phys(0)
    /\ ingenic_drm_bind_writes(PreBind).regs.DA1 = dma_hwdesc_phys(1)

\* on multi-plane hardware both descriptors have been given a buffer
C18_Witness ==
    /\ soc_info.has_osd /\ pc = "idle"
    /\ Live(plane["f1"]) /\ Live(plane["f0"])
    /\ dma_hwdesc[0].addr # 0 /\ dma_hwdesc[1].addr # 0
    /\ dma_hwdesc[0].cmd.eof_irq /\ dma_hwdesc[1].cmd.eof_irq

\* the descriptor slot of plane p
SlotOf(p) ==
    IF ~soc_info.has_osd THEN 0 ELSE IF p = "f1" THEN 1 ELSE 0

\* the address of the first pixel of the source rectangle: the buffer's
\* physical address plus src_y lines and src_x pixels
ScanoutStart(st) ==
    st.fb.paddr + FixInt(st.src_y) * st.fb.width * Cpp(st.fb.format)
                + FixInt(st.src_x) * Cpp(st.fb.format)

\* the command word of the claim
CommandWord(st) ==
    [len |-> (FixInt(st.src_w) * FixInt(st.src_h) * Cpp(st.fb.format)) \div 4,
     eof_irq |-> TRUE]

\* the plane states the check accepts for plane p in the current state
Acceptable(p) ==
    {st \in PlaneInputs(p) :
        crtc.active /\ Present(p)
        /\ ingenic_drm_plane_atomic_check(plane[p], st, crtc).ret = "ok"}

\* what a plane update does to the descriptors, the address being addr(st)
UpdateWrites(addr(_)) ==
    \A p \in {"f1", "f0"} : \A st \in Acceptable(p) : \A mc \in BOOLEAN :
       LET h == ingenic_drm_plane_atomic_update(
                    H, p, st, [crtc EXCEPT !.mode_changed = mc])
       IN IF Live(st)
          THEN /\ h.desc[SlotOf(p)] =
                     [dma_hwdesc[SlotOf(p)] EXCEPT !.addr = addr(st),
                                                   !.cmd = CommandWord(st)]
               /\ h.desc[1 - SlotOf(p)] = dma_hwdesc[1 - SlotOf(p)]
          ELSE h.desc = dma_hwdesc

\* the plane phase of a running commit has written the descriptor of a
\* live plane
PlaneWritten(p) ==
    /\ InFlight /\ p \in in_state.planes /\ Live(plane[p])
    /\ PhaseIndex(pc) > PhaseIndex("plane_" \o p)

BufferBase(st) == st.fb.paddr

\* C19, as the specification states it: a plane update with a live buffer
\* changes exactly the descriptor of that plane (slot 0 on single-plane
\* hardware, slot 1 for the primary and slot 0 for the overlay plane on
\* multi-plane hardware): its address becomes the buffer's physical address,
\* its command word width * height * bytes-per-pixel / 4 with the
\* end-of-frame request bit; the other descriptor is unchanged, and an
\* update with no buffer changes no descriptor.
C19_AddressIsBufferBase ==
    /\ UpdateWrites(BufferBase)
    /\ \A p \in {"f1", "f0"} :
          PlaneWritten(p) => dma_hwdesc[SlotOf(p)].addr = plane[p].fb.paddr

\* C19, amended: as above, but the address written is that of the first
\* pixel of the source rectangle: the buffer's physical address plus the
\* source offset (src_y lines and src_x pixels), which is the buffer's
\* physical address only when the source offset is zero.
C19_AddressIsScanoutStart ==
    /\ UpdateWrites(ScanoutStart)
    /\ \A p \in {"f1", "f0"} :
          PlaneWritten(p) =>
             /\ dma_hwdesc[SlotOf(p)].addr = ScanoutStart(plane[p])
             /\ dma_hwdesc[SlotOf(p)].cmd = CommandWord(plane[p])

\* a commit has given the primary plane a buffer panned down by one line:
\* the descriptor points one line into the buffer
C19_Witness ==
    /\ PlaneWritten("f1") /\ plane["f1"].src_y # 0
    /\ dma_hwdesc[SlotOf("f1")].addr
          = plane["f1"].fb.paddr + plane["f1"].fb.width * Cpp(plane["f1"].fb.format)

\* plane position / size registers and the timing registers
GeometryRegs == {"XYP0", "XYP1", "SIZE0", "SIZE1"} \cup TimingRegs

\* what the begin phase writes
RoutingInBegin ==
    (pc = "begin" /\ pc' # pc) =>
       IF soc_info.has_osd /\ drm_atomic_crtc_needs_modeset(crtc)
       THEN /\ log' = Append(log, "OSDCTRL")
            /\ regs' = [regs EXCEPT
                          !.OSDCTRL.ipu = (ipu_plane /\ Live(plane["ipu"]))]
            /\ RegWrites(log) \cap (GeometryRegs \cup {"OSDCTRL", "OSDC"}) = {}
       ELSE log' = log /\ regs' = regs

\* where a running commit stands with respect to the routing bit
RoutingState ==
    InFlight =>
       /\ (PhaseIndex(pc) <= PhaseIndex("begin"))
             => RegWrites(log) \subseteq {"CTRL", "CFG"}
       /\ (/\ soc_info.has_osd /\ drm_atomic_crtc_needs_modeset(crtc)
           /\ PhaseIndex(pc) > PhaseIndex("begin"))
             => /\ log # <<>>
                /\ \E i \in DOMAIN log :
                      /\ log[i] = "OSDCTRL"
                      /\ \A j \in 1..(i - 1) :
                            log[j] \in LcdRegs => log[j] \in {"CTRL", "CFG"}
                /\ regs.OSDCTRL.ipu = (ipu_plane /\ Live(plane["ipu"]))
       /\ ~drm_atomic_crtc_needs_modeset(crtc) => "OSDCTRL" \notin RegWrites(log)

\* C20: in a modeset commit on multi-plane hardware the begin phase writes
\* the routing bit of the Image-Processing plane, before any plane position,
\* size or format register and before any timing register of the commit is
\* written, with the value "the Image-Processing plane carries a buffer in
\* the new state"; a commit that is not a modeset does not write it.
C20_RoutingBitWrittenFirst ==
    /\ []RoutingState
    /\ [][RoutingInBegin]_vars

\* a modeset commit has routed the Image-Processing plane and then
\* programmed the timings
C20_Witness ==
    /\ pc = "cleanup" /\ soc_info.has_osd /\ ipu_plane
    /\ drm_atomic_crtc_needs_modeset(crtc)
    /\ Live(plane["ipu"]) /\ regs.OSDCTRL.ipu
    /\ "VAT" \in RegWrites(log)

\* position of the first / last entry of the log that lies in set S (0: none)
FirstIn(q, S) ==
    IF \E i \in DOMAIN q : q[i] \in S
    THEN CHOOSE i \in DOMAIN q : q[i] \in S /\ \A j \in 1..(i - 1) : q[j] \notin S
    ELSE 0

LastIn(q, S) ==
    IF \E i \in DOMAIN q : q[i] \in S
    THEN CHOOSE i \in DOMAIN q :
            q[i] \in S /\ \A j \in (i + 1)..Len(q) : q[j] \notin S
    ELSE 0

\* the flush of a modeset commit that enables a mode has returned
ModesetFlushed ==
    AfterFlush /\ drm_atomic_crtc_needs_modeset(crtc) /\ Enable(crtc)

\* C21, as the specification states it: once the flush of a modeset commit
\* has returned, every timing register has been written before the pixel
\* clock rate was applied, and the pixel clock runs at exactly the clock
\* frequency of the requested mode, the rate the Checking phase validated.
C21_PixelClockIsRequestedRate ==
    ModesetFlushed =>
       /\ \A r \in {"VSYNC", "HSYNC", "VAT", "DAH", "DAV", "IPUR"} :
             /\ r \in RegWrites(log)
             /\ LastIn(log, {r}) < FirstIn(log, {"pix_clk"})
       /\ pix_clk = crtc.mode.clock

\* the device clock runs at the rate the bring-up gave it, and the running
\* commit has not set it
DeviceClockAsBound ==
    /\ lcd_clk = ingenic_drm_bind_clocks(PreBind).lcd
    /\ soc_info.needs_dev_clk => lcd_clk = ParentRate
    /\ "lcd_clk" \notin Range(log)

\* C22: the device clock, when present, runs at the rate of its upstream
\* clock source from bring-up on, and no step of any commit (modeset or fast
\* update), no plane operation and no interrupt changes its rate or sets it
\* again.
C22_DeviceClockSetOnce ==
    /\ []DeviceClockAsBound
    /\ [][lcd_clk' = lcd_clk]_vars

\* a modeset on hardware with a device clock has applied a pixel clock rate
C22_Witness ==
    /\ pc = "cleanup" /\ soc_info.needs_dev_clk
    /\ "pix_clk" \in Range(log) /\ pix_clk = 25000
    /\ lcd_clk = ParentRate

\* disable_plane and enable, applied to the current state: on multi-plane
\* hardware they differ from it in the plane's enable bit only, on
\* single-plane hardware they issue no register access at all
EnableBitOnly ==
    \A p \in {"f1", "f0"} :
       LET off == ingenic_drm_plane_disable(H, p)
           on  == ingenic_drm_plane_enable(H, p)
       IN /\ off.desc = dma_hwdesc /\ on.desc = dma_hwdesc
          /\ \A r \in DOMAIN regs \ {"OSDC"} :
                off.regs[r] = regs[r] /\ on.regs[r] = regs[r]
          /\ IF soc_info.has_osd
             THEN /\ off.regs.OSDC = [regs.OSDC EXCEPT ![EnBit(p)] = FALSE]
                  /\ on.regs.OSDC = [regs.OSDC EXCEPT ![EnBit(p)] = TRUE]
                  /\ off.log = Append(log, "OSDC")
                  /\ on.log = Append(log, "OSDC")
             ELSE off = H /\ on = H

\* the plane phase of a commit that detaches plane p keeps both descriptors
\* and every register but the one holding the enable bits
DisableKeepsProgramming ==
    \A p \in {"f1", "f0"} :
       (/\ pc \in {"plane_f1", "plane_f0"} /\ PhasePlane(pc) = p /\ pc' # pc
        /\ Live(old_plane[p]) /\ ~Live(plane[p]))
          => /\ dma_hwdesc' = dma_hwdesc
             /\ \A r \in DOMAIN regs \ {"OSDC"} : regs'[r] = regs[r]
             /\ IF soc_info.has_osd
                THEN /\ regs'.OSDC = [regs.OSDC EXCEPT ![EnBit(p)] = FALSE]
                     /\ log' = Append(log, "OSDC")
                ELSE regs' = regs /\ log' = log

\* C23: disable_plane changes only the plane's enable bit: both descriptors
\* (next, address, tag, command) and the plane's format, position and size
\* registers are as they were, so a plane whose enable bit is cleared keeps
\* its descriptor; on single-plane hardware disable_plane and enable change
\* no register at all.
C23_DisableKeepsDescriptor ==
    /\ []EnableBitOnly
    /\ [][DisableKeepsProgramming]_vars

\* a commit has disabled the primary plane of multi-plane hardware: its
\* enable bit is clear while its descriptor still describes the last buffer
\* and its size register the last geometry
C23_Witness ==
    /\ soc_info.has_osd
    /\ pc = "cleanup"
    /\ Live(old_plane["f1"]) /\ ~Live(plane["f1"])
    /\ ~regs.OSDC.f1en
    /\ dma_hwdesc[SlotOf("f1")].addr = ScanoutStart(old_plane["f1"])
    /\ dma_hwdesc[SlotOf("f1")].cmd = CommandWord(old_plane["f1"])
    /\ dma_hwdesc[SlotOf("f1")].cmd.eof_irq
    /\ regs.SIZE1 = [w |-> 640, h |-> 480]

\* the bytes a plane update transfers: width * height * bytes-per-pixel
TransferSize(st) == FixInt(st.src_w) * FixInt(st.src_h) * Cpp(st.fb.format)

\* what the plane phase of a live plane does about the cache, the range
\* starting at addr(st)
CacheSyncFirst(addr(_)) ==
    \A p \in {"f1", "f0"} :
       (/\ pc \in {"plane_f1", "plane_f0"} /\ PhasePlane(pc) = p /\ pc' # pc
        /\ Live(plane[p]))
          => IF ingenic_drm_cached_gem_buf
             THEN /\ cache_sync' =
                        Append(cache_sync, [addr |-> addr(plane[p]),
                                            size |-> TransferSize(plane[p])])
                  /\ Len(log') >= Len(log) + 3
                  /\ SubSeq(log', 1, Len(log) + 3) =
                        Append(log, "dma_cache_sync") \o DescLog(SlotOf(p))
             ELSE /\ cache_sync' = cache_sync
                  /\ "dma_cache_sync" \notin Range(log')

\* C24, as the specification states it: in a plane update with a live
\* buffer and the cached-buffer policy on, the cache is written back for
\* exactly width * height * bytes-per-pixel bytes starting at the buffer's
\* address, before the descriptor's address and command words are written;
\* with the policy off no cache write-back is made.
C24_CacheSyncFromBufferBase ==
    [][CacheSyncFirst(BufferBase)]_vars

\* C24, amended: as above, but the range starts at the address the
\* descriptor is given, that of the first pixel of the source rectangle (the
\* buffer's address plus the source offset).
C24_CacheSyncFromScanoutStart ==
    [][CacheSyncFirst(ScanoutStart)]_vars

\* with the policy on, the primary plane has been given a buffer panned down
\* by one line: one write-back, of 640 * 480 * 2 bytes from the second line
C24_Witness ==
    /\ ingenic_drm_cached_gem_buf
    /\ pc = "flush" /\ Live(plane["f1"]) /\ plane["f1"].src_y = Fix(1)
    /\ cache_sync = <<[addr |-> plane["f1"].fb.paddr + 1280, size |-> 614400]>>
    /\ dma_hwdesc[SlotOf("f1")].addr = plane["f1"].fb.paddr + 1280

\* the drive-mode flags of JZ_REG_LCD_CFG
DriveModes ==
    {"MODE_GENERIC_16BIT", "MODE_GENERIC_18BIT", "MODE_GENERIC_24BIT",
     "MODE_8BIT_SERIAL", "MODE_TV_OUT_P", "MODE_SPECIAL_TFT_1"}

\* the primary plane carries a buffer of less than 3 bytes per pixel
PrimaryBelow24(st) == Live(st) /\ Cpp(st.fb.format) < 3

\* the drive mode the encoder mode-set step leaves in the configuration
\* register of a generic (not special-TFT, not TV) panel
DriveModeSet ==
    (pc = "mode_set" /\ pc' # pc /\ ~panel.sharp /\ ~panel.tv) =>
       LET drive == regs'.CFG \cap DriveModes
       IN CASE panel.bus_format = "RGB888_1X24" ->
                  drive = IF PrimaryBelow24(plane["f1"])
                          THEN {"MODE_GENERIC_18BIT"}
                          ELSE {"MODE_GENERIC_24BIT"}
            [] panel.bus_format = "RGB565_1X16" -> drive = {"MODE_GENERIC_16BIT"}
            [] panel.bus_format = "RGB666_1X18" -> drive = {"MODE_GENERIC_18BIT"}
            [] OTHER -> TRUE

\* C25: the encoder mode-set for a panel that is neither special-TFT nor TV
\* and whose interface is 24-bit selects the 18-bit drive mode exactly when
\* the Primary plane carries a buffer of less than 3 bytes per pixel, and
\* the 24-bit drive mode otherwise, also when the Primary plane has no
\* buffer; a 16-bit interface always gets the 16-bit and an 18-bit interface
\* the 18-bit drive mode, whatever the plane's format.
C25_DowngradeTo18Bit ==
    [][DriveModeSet]_vars

\* a 24-bit generic panel has been configured with a 16bpp primary plane:
\* the 18-bit drive mode is selected
C25_Witness ==
    /\ pc = "begin" /\ Range(log) = {"CFG"}
    /\ ~panel.sharp /\ ~panel.tv /\ panel.bus_format = "RGB888_1X24"
    /\ Live(plane["f1"]) /\ plane["f1"].fb.format = "RGB565"
    /\ regs.CFG \cap DriveModes = {"MODE_GENERIC_18BIT"}

\* vertical-blank handling is on only while the controller is enabled and
\* no disable request is pending
VblankOnlyWhileEnabled ==
    vblank.on => (regs.CTRL.enable /\ ~regs.CTRL.disable)

\* controller enable: status cleared, enable set and disable request
\* cleared, then vertical-blank handling on
EnableOrder ==
    (pc = "enable" /\ pc' # pc) =>
       /\ log' = log \o <<"LCDSTATE", "CTRL", "drm_crtc_vblank_on">>
       /\ regs'.LCDSTATE = NoStatus
       /\ regs'.CTRL = [regs.CTRL EXCEPT !.enable = TRUE, !.disable = FALSE]
       /\ vblank'.on

\* controller disable: vertical-blank handling off (its interrupt disabled
\* if it was enabled), then the disable request
DisableOrder ==
    (pc = "disable" /\ pc' # pc) =>
       /\ log' = log \o <<"drm_crtc_vblank_off">>
                     \o (IF vblank.enabled THEN <<"CTRL">> ELSE <<>>)
                     \o <<"CTRL">>
       /\ regs'.CTRL = [regs.CTRL EXCEPT !.eof_irq = FALSE, !.disable = TRUE]
       /\ ~vblank'.on /\ ~vblank'.enabled

\* C26: controller enable clears the status register, sets the enable bit
\* while clearing the disable-request bit and only then turns vertical-blank
\* handling on; controller disable turns vertical-blank handling off before
\* it sets the disable-request bit; so in every state vertical-blank
\* handling is on only while the controller is enabled with no disable
\* request pending.
C26_VblankOnlyWhileEnabled ==
    /\ []VblankOnlyWhileEnabled
    /\ [][EnableOrder]_vars
    /\ [][DisableOrder]_vars

\* one commit has disabled and re-enabled the controller: vertical-blank
\* handling is on again, the disable request is cleared
C26_Witness ==
    /\ pc = "cleanup"
    /\ FirstIn(log, {"drm_crtc_vblank_off"}) > 0
    /\ FirstIn(log, {"drm_crtc_vblank_off"}) < FirstIn(log, {"drm_crtc_vblank_on"})
    /\ vblank.on /\ regs.CTRL.enable /\ ~regs.CTRL.disable

====
